---- MODULE Spec2Model ----
(***************************************************************************)
(* State-machine model of the CodeReview backend: the job routes           *)
(* (routes/analyze.ts, in its two versions), AnalysisService (batch        *)
(* scheduling, per-file review, report aggregation) and the parts of       *)
(* GitService and GitHubIssuesService the job pipeline awaits.             *)
(*                                                                         *)
(* One action is one run of JavaScript between two suspension points: the  *)
(* event loop runs a continuation to its next await without interleaving,  *)
(* so a handler and everything it calls synchronously is a single step.    *)
(***************************************************************************)
EXTENDS Integers, Sequences, FiniteSets, TLC

(***************************************************************************)
(* Bounds of the model and constants of the program                        *)
(***************************************************************************)
\* Spec, one job: files that file discovery returns, issues the tracker returns
MaxFiles == 7
MaxIssues == 4
\* SpecJobs, two concurrent jobs: files and issues of each
MaxJobFiles == 1
MaxJobIssues == 0
\* SpecReport: verdicts handed to the aggregation functions
MaxVerdicts == 3
\* SpecSummary: issues handed to the issue track
MaxSummaryIssues == 5
\* SpecDiscover: files in a checkout
MaxTreeFiles == 3
\* SpecTruncate: lines of a content
MaxLines == 203
\* SpecCorrelate: code files an issue is correlated with
MaxRelatedFiles == 12

maxFilesPerBatch == 5
batchSize == 3
maxAttempts == 3
EmptyBucketScore == 85

\* NaN, held as an integer no score can take
NaN == 0 - 1000

Min(a, b) == IF a < b THEN a ELSE b
Max(a, b) == IF a > b THEN a ELSE b

\* Array.prototype.slice(from, to) on a 0-based array held as a 1-based sequence
Slice(s, from, to) == SubSeq(s, from + 1, Min(to, Len(s)))

RECURSIVE Flatten(_)
Flatten(ss) == IF ss = <<>> THEN <<>> ELSE Head(ss) \o Flatten(Tail(ss))

RECURSIVE SumSeq(_)
SumSeq(s) == IF s = <<>> THEN 0 ELSE Head(s) + SumSeq(Tail(s))

\* Array.prototype.map(x => x.f)
Pluck(s, f) == [k \in 1..Len(s) |-> s[k][f]]

(***************************************************************************)
(* Math.round of the quotient num / den (den > 0): the nearest integer,    *)
(* a tie going up.                                                         *)
(***************************************************************************)
MathRound(num, den) == (2 * num + den) \div (2 * den)

IsTie(num, den) == (2 * num) % (2 * den) = den

(***************************************************************************)
(* AnalysisService: the aggregation functions                              *)
(***************************************************************************)
IssueTypes == {"security", "performance", "quality", "style", "bug"}
Severities == {"low", "medium", "high", "critical"}
RiskLevels == {"low", "medium", "high", "critical"}

\* variant: high weighs 5
severityWeights_high5 == [low |-> 1, medium |-> 3, high |-> 5, critical |-> 15]

severityWeights == [low |-> 1, medium |-> 3, high |-> 7, critical |-> 15]

allIssues(analyses) == Flatten(Pluck(analyses, "issues"))

IsSecurity(i) == i.type = "security"
IsPerformance(i) == i.type = "performance"
IsQuality(i) == i.type = "quality" \/ i.type = "bug"
IsStyle(i) == i.type = "style"
IsCritical(i) == i.severity = "critical"
IsHigh(i) == i.severity = "high"

categoryIssues(analyses) ==
    [security    |-> SelectSeq(allIssues(analyses), IsSecurity),
     performance |-> SelectSeq(allIssues(analyses), IsPerformance),
     quality     |-> SelectSeq(allIssues(analyses), IsQuality),
     style       |-> SelectSeq(allIssues(analyses), IsStyle)]

totalWeight(issues) == SumSeq([k \in 1..Len(issues) |-> severityWeights[issues[k].severity]])

\* variant: the score is not floored at 0
calculateScore_noFloor(issues, fileCount) ==
    IF Len(issues) = 0
    THEN EmptyBucketScore
    ELSE MathRound(100 * (fileCount * 5) - 100 * totalWeight(issues), fileCount * 5)

\* A bucket is only non-empty when there is at least one file, so the divisor
\* is positive wherever it is used. The quotient is evaluated exactly; the
\* program's double arithmetic gives the same integer for every fileCount
\* below 40 (the first difference is fileCount = 40, totalWeight = 109).
calculateScore(issues, fileCount) ==
    IF Len(issues) = 0
    THEN EmptyBucketScore
    ELSE Max(0, MathRound(100 * (fileCount * 5) - 100 * totalWeight(issues),
                          fileCount * 5))

\* Math.round(sum / analyses.length): 0 / 0 is NaN and Math.round(NaN) is NaN
maintainabilityScore(analyses) ==
    IF Len(analyses) = 0
    THEN NaN
    ELSE MathRound(SumSeq(Pluck(analyses, "maintainability")), Len(analyses))

RECURSIVE Count(_, _)
Count(s, x) == IF s = <<>> THEN 0
               ELSE (IF Head(s) = x THEN 1 ELSE 0) + Count(Tail(s), x)

\* the distinct elements of s in order of first occurrence (Map insertion order)
RECURSIVE Distinct(_)
Distinct(s) ==
    IF s = <<>> THEN <<>>
    ELSE LET d == Distinct(SubSeq(s, 1, Len(s) - 1))
             x == s[Len(s)]
         IN IF \E k \in 1..Len(d) : d[k] = x THEN d ELSE Append(d, x)

\* Array.prototype.sort((a, b) => b[1] - a[1]) on the entries of the count map:
\* a stable sort of the distinct suggestions d, most frequent in all first
RECURSIVE SortByCount(_, _)
SortByCount(d, all) ==
    IF d = <<>> THEN <<>>
    ELSE LET best == CHOOSE k \in 1..Len(d) :
                        /\ \A m \in 1..Len(d) : Count(all, d[m]) <= Count(all, d[k])
                        /\ \A m \in 1..(k - 1) : Count(all, d[m]) < Count(all, d[k])
             rest == [m \in 1..(Len(d) - 1) |-> IF m < best THEN d[m] ELSE d[m + 1]]
         IN <<d[best]>> \o SortByCount(rest, all)

getTopSuggestions(issues) ==
    LET all == Pluck(issues, "suggestion")
    IN Slice(SortByCount(Distinct(all), all), 0, 3)

CategoryScore(score, issues, criticalIssues) ==
    [score |-> score,
     issues |-> Len(issues),
     criticalIssues |-> criticalIssues,
     suggestions |-> getTopSuggestions(issues),
     details |-> Pluck(Slice(issues, 0, 5), "message")]

calculateCategoryScores(analyses) ==
    LET b == categoryIssues(analyses)
        n == Len(analyses)
    IN [codeQuality |-> CategoryScore(calculateScore(b.quality, n), b.quality,
                                      Len(SelectSeq(b.quality, IsCritical))),
        security |-> CategoryScore(calculateScore(b.security, n), b.security,
                                   Len(SelectSeq(b.security, IsCritical))),
        performance |-> CategoryScore(calculateScore(b.performance, n), b.performance,
                                      Len(SelectSeq(b.performance, IsCritical))),
        maintainability |-> CategoryScore(maintainabilityScore(analyses), b.style, 0)]

\* 100 times the weighted sum: the weights are 0.3, 0.25, 0.25 and 0.2
weightedSum(categories) ==
    30 * categories.security.score + 25 * categories.codeQuality.score
    + 25 * categories.performance.score + 20 * categories.maintainability.score

\* Math.round of the weighted sum. 0.3 and 0.2 are not doubles, so where the
\* exact sum is a tie (x.5) the double sum may lie just below it and round down,
\* as for scores 9, 0, 8, 4: both neighbours are outcomes. A NaN score makes
\* the sum NaN.
calculateOverallScore(categories) ==
    IF categories.maintainability.score = NaN
    THEN {NaN}
    ELSE LET w == weightedSum(categories)
         IN IF IsTie(w, 100)
            THEN {MathRound(w, 100) - 1, MathRound(w, 100)}
            ELSE {MathRound(w, 100)}

\* variant: the risk level follows the score alone
determineRiskLevel_scoreOnly(score, analyses) ==
    IF score # NaN /\ score < 40 THEN "critical"
    ELSE IF score # NaN /\ score < 60 THEN "high"
    ELSE IF score # NaN /\ score < 80 THEN "medium"
    ELSE "low"

\* every comparison with NaN is false
determineRiskLevel(score, analyses) ==
    LET criticalIssues == Len(SelectSeq(allIssues(analyses), IsCritical))
    IN IF criticalIssues > 0 \/ (score # NaN /\ score < 40) THEN "critical"
       ELSE IF score # NaN /\ score < 60 THEN "high"
       ELSE IF score # NaN /\ score < 80 THEN "medium"
       ELSE "low"

Truthy(s) == s # ""

immediateRecommendations(analyses) ==
    LET criticalIssues == SelectSeq(allIssues(analyses), IsCritical)
        highIssues == SelectSeq(allIssues(analyses), IsHigh)
    IN SelectSeq(Pluck(Slice(criticalIssues, 0, 3), "suggestion")
              \o Pluck(Slice(highIssues, 0, 2), "suggestion"), Truthy)

riskDescriptions ==
    [low |-> "well-maintained with minimal issues",
     medium |-> "generally good but has some areas for improvement",
     high |-> "has several important issues that should be addressed",
     critical |-> "has critical issues that require immediate attention"]

\* the fields of the summary sentence that depend on the verdicts
generateSummary(score, categories) ==
    [score |-> score,
     phrase |-> riskDescriptions[determineRiskLevel(score, <<>>)],
     focus |-> IF categories.security.criticalIssues > 0
               THEN "security vulnerabilities" ELSE "code quality improvements"]

\* the report for one outcome of the overall score; the issue summary passed
\* as third argument is not used by the function and is not part of the report
FinalReport(fileAnalyses, totalFiles, categories, overallScore) ==
    [overview |-> [totalFiles |-> totalFiles,
                   overallScore |-> overallScore,
                   riskLevel |-> determineRiskLevel(overallScore, fileAnalyses)],
     categories |-> categories,
     fileAnalysis |-> fileAnalyses,
     immediate |-> immediateRecommendations(fileAnalyses),
     summary |-> generateSummary(overallScore, categories)]

generateFinalReport(fileAnalyses, totalFiles, githubIssuesAnalysis) ==
    LET categories == calculateCategoryScores(fileAnalyses)
    IN {FinalReport(fileAnalyses, totalFiles, categories, overallScore) :
            overallScore \in calculateOverallScore(categories)}

(***************************************************************************)
(* AnalysisService.analyzeFile: one reviewer call and its fallback         *)
(***************************************************************************)
\* What the reviewer capability does with one request: the call throws,
\* answers without content, answers text that JSON.parse rejects, answers the
\* JSON text null, or answers a JSON object.
\* A content is held as the sequence of its lines, content.split('\n'); the
\* join with '\n' is then the concatenation. The marker itself begins and ends
\* with a line break, so it joins as an empty line, the comment, an empty line.
MarkerLines == << "", "// ... (content truncated for analysis) ...", "" >>

\* variant: the head of the content alone is kept
truncateContent_headOnly(content) ==
    IF Len(content) <= 200 THEN content
    ELSE SubSeq(content, 1, 150) \o MarkerLines

truncateContent(content) ==
    LET lines == content
    IN IF Len(lines) <= 200 THEN content
       ELSE SubSeq(lines, 1, 150) \o MarkerLines \o SubSeq(lines, Len(lines) - 49, Len(lines))

FailureKinds == {"throw", "empty", "text"}

\* analysis.f || d for a number: a missing field and 0 both give the default
NumberOr(obj, f, d) == IF f \in DOMAIN obj /\ obj[f] # 0 THEN obj[f] ELSE d
\* analysis.f || d for an array: every array, the empty one too, is truthy
ArrayOr(obj, f, d) == IF f \in DOMAIN obj THEN obj[f] ELSE d
\* analysis.f || d for a string: a missing field and "" both give the default
StringOr(obj, f, d) == IF f \in DOMAIN obj /\ obj[f] # "" THEN obj[f] ELSE d

\* variant: the fallback carries the defaults of a successful parse
fallbackAnalysis_defaults(file) ==
    [filePath |-> file.relativePath,
     score |-> 70,
     issues |-> <<>>,
     suggestions |-> <<>>,
     complexity |-> "medium",
     maintainability |-> 70]

fallbackAnalysis(file) ==
    [filePath |-> file.relativePath,
     score |-> 60,
     issues |-> << [type |-> "quality", severity |-> "medium",
                    message |-> "Unable to analyze this file automatically",
                    suggestion |-> "Manual review recommended"] >>,
     suggestions |-> << "Review this file manually for potential improvements" >>,
     complexity |-> "medium",
     maintainability |-> 60]

\* the try block: the verdict it returns, or threw when control leaves it by
\* an exception (the call, the empty-response check, JSON.parse, or the
\* property read on a parsed null)
analyzeFileTry(file, response) ==
    IF response.kind \in FailureKinds \cup {"null"}
    THEN [threw |-> TRUE]
    ELSE [threw |-> FALSE,
          value |-> [filePath |-> file.relativePath,
                     score |-> NumberOr(response.value, "score", 70),
                     issues |-> ArrayOr(response.value, "issues", <<>>),
                     suggestions |-> ArrayOr(response.value, "suggestions", <<>>),
                     complexity |-> StringOr(response.value, "complexity", "medium"),
                     maintainability |-> NumberOr(response.value, "maintainability", 70)]]

\* variant: the catch block logs and rethrows
analyzeFile_rethrow(file, response) ==
    LET t == analyzeFileTry(file, response)
    IN IF t.threw
       THEN [raised |-> TRUE, value |-> fallbackAnalysis(file)]
       ELSE [raised |-> FALSE, value |-> t.value]

\* raised tells whether the promise rejects
analyzeFile(file, response) ==
    LET t == analyzeFileTry(file, response)
    IN IF t.threw
       THEN [raised |-> FALSE, value |-> fallbackAnalysis(file)]
       ELSE [raised |-> FALSE, value |-> t.value]

(***************************************************************************)
(* GitHubIssuesService: priority of an issue and the order of the analyses *)
(***************************************************************************)
\* A label or a title is held as the set of the keywords it contains, so
\* text.includes(keyword) is membership.
Includes(text, keyword) == keyword \in text

SomeLabel(labels, keywords) ==
    \E k \in 1..Len(labels) : \E w \in keywords : Includes(labels[k], w)

\* variant: the low rule is tried before the critical and the high rule
prioritizeIssue_lowFirst(issue) ==
    IF \/ SomeLabel(issue.labels, {"low", "minor", "nice-to-have"})
       \/ \E w \in {"minor", "cosmetic"} : Includes(issue.title, w)
       \/ issue.state = "closed"
    THEN "low"
    ELSE IF \/ SomeLabel(issue.labels, {"critical", "urgent", "security"})
            \/ \E w \in {"critical", "urgent", "security", "crash", "data loss"} :
                   Includes(issue.title, w)
    THEN "critical"
    ELSE IF \/ SomeLabel(issue.labels, {"high", "important", "priority"})
            \/ \E w \in {"blocker", "regression", "production"} : Includes(issue.title, w)
    THEN "high"
    ELSE "medium"

prioritizeIssue(issue) ==
    IF \/ SomeLabel(issue.labels, {"critical", "urgent", "security"})
       \/ \E w \in {"critical", "urgent", "security", "crash", "data loss"} :
              Includes(issue.title, w)
    THEN "critical"
    ELSE IF \/ SomeLabel(issue.labels, {"high", "important", "priority"})
            \/ \E w \in {"blocker", "regression", "production"} : Includes(issue.title, w)
    THEN "high"
    ELSE IF \/ SomeLabel(issue.labels, {"low", "minor", "nice-to-have"})
            \/ \E w \in {"minor", "cosmetic"} : Includes(issue.title, w)
            \/ issue.state = "closed"
    THEN "low"
    ELSE "medium"

categorizeIssue(issue) ==
    IF \/ SomeLabel(issue.labels, {"bug"})
       \/ \E w \in {"bug", "error", "fix"} : Includes(issue.title, w)
    THEN "bug"
    ELSE IF \/ SomeLabel(issue.labels, {"feature"})
            \/ \E w \in {"feature", "implement"} : Includes(issue.title, w)
    THEN "feature"
    ELSE IF \/ SomeLabel(issue.labels, {"enhancement"})
            \/ \E w \in {"improve", "enhance"} : Includes(issue.title, w)
    THEN "enhancement"
    ELSE IF \/ SomeLabel(issue.labels, {"documentation"})
            \/ \E w \in {"docs", "documentation"} : Includes(issue.title, w)
    THEN "documentation"
    ELSE IF \/ SomeLabel(issue.labels, {"question"})
            \/ \E w \in {"question", "how to"} : Includes(issue.title, w)
    THEN "question"
    ELSE "other"

\* the estimatedEffort of getAIIssueAnalysis
estimatedEffort(issue) ==
    IF SomeLabel(issue.labels, {"major", "breaking"}) THEN "high"
    ELSE IF SomeLabel(issue.labels, {"minor", "easy"}) THEN "low"
    ELSE "medium"

(***************************************************************************)
(* The text of an issue (title, a blank, body, lower-cased) is held in     *)
(* issue.text as the sequence of its pieces: a word (a maximal run of      *)
(* identifier characters, with its length) or a file name (its words and   *)
(* its whole text, which the file pattern matches). The texts of the model *)
(* hold no quotes, so the quoted-string pattern finds nothing.             *)
(***************************************************************************)
Word(text, len) == [kind |-> "word", text |-> text, len |-> len]
FileName(text, words) == [kind |-> "file", text |-> text, words |-> words]

\* text.match(codePattern): the identifier-shaped words, in order
codeMatches(text) ==
    Flatten([k \in 1..Len(text) |->
                IF text[k].kind = "word" THEN <<text[k]>> ELSE text[k].words])

\* text.match(filePattern)
fileMatches(text) ==
    Pluck(SelectSeq(text, LAMBDA t : t.kind = "file"), "text")

extractSearchTerms(issue) ==
    LET kept == SelectSeq(codeMatches(issue.text), LAMBDA w : w.len > 2 /\ w.len < 50)
    IN Slice(Distinct(Pluck(kept, "text") \o fileMatches(issue.text)), 0, 20)

\* the score findRelatedFiles gives a file: 10 for each term that occurs in
\* its path, 2 for each whole-word match of a term in its content, 5 if its
\* extension occurs in the body of the issue
relevance(issue, file) ==
    LET searchTerms == extractSearchTerms(issue)
    IN SumSeq([k \in 1..Len(searchTerms) |->
                  IF searchTerms[k] \in file.pathTerms THEN 10 ELSE 0])
       + SumSeq([k \in 1..Len(searchTerms) |->
                    IF searchTerms[k] \in DOMAIN file.content
                    THEN 2 * file.content[searchTerms[k]] ELSE 0])
       + (IF file.extension \in issue.bodyExtensions THEN 5 ELSE 0)

\* Array.prototype.sort((a, b) => b.score - a.score), a stable sort
RECURSIVE sortByScore(_)
sortByScore(s) ==
    IF s = <<>> THEN <<>>
    ELSE LET first == CHOOSE k \in 1..Len(s) :
                         /\ \A m \in 1..Len(s) : s[m].score <= s[k].score
                         /\ \A m \in 1..(k - 1) : s[m].score < s[k].score
             rest == [m \in 1..(Len(s) - 1) |-> IF m < first THEN s[m] ELSE s[m + 1]]
         IN <<s[first]>> \o sortByScore(rest)

\* variant: every file is kept, whatever its score
findRelatedFiles_keepsAll(issue, codeFiles) ==
    LET scored == [k \in 1..Len(codeFiles) |->
                      [file |-> codeFiles[k], score |-> relevance(issue, codeFiles[k])]]
    IN Pluck(Slice(sortByScore(scored), 0, 10), "file")

findRelatedFiles(issue, codeFiles) ==
    LET scored == [k \in 1..Len(codeFiles) |->
                      [file |-> codeFiles[k], score |-> relevance(issue, codeFiles[k])]]
        relatedFiles == SelectSeq(scored, LAMBDA rf : rf.score > 0)
    IN Pluck(Slice(sortByScore(relatedFiles), 0, 10), "file")

\* The IssueAnalysis without its suggestions and code context, which nothing
\* after it reads. No step of the try block throws for the issues of the
\* model: their terms hold no character that is special in a regular
\* expression other than the dot.
analyzeIssue(issue, codeFiles) ==
    [issue |-> issue,
     category |-> categorizeIssue(issue),
     priority |-> prioritizeIssue(issue),
     relatedFiles |-> Pluck(findRelatedFiles(issue, codeFiles), "relativePath"),
     estimatedEffort |-> estimatedEffort(issue)]

priorityWeight == [critical |-> 4, high |-> 3, medium |-> 2, low |-> 1]

\* a precedes b under the comparator of analyses.sort
SortsBefore(a, b) ==
    IF priorityWeight[a.priority] # priorityWeight[b.priority]
    THEN priorityWeight[a.priority] > priorityWeight[b.priority]
    ELSE a.issue.createdAt > b.issue.createdAt

\* Array.prototype.sort with that comparator (a stable sort)
RECURSIVE sortAnalyses(_)
sortAnalyses(s) ==
    IF s = <<>> THEN <<>>
    ELSE LET first == CHOOSE k \in 1..Len(s) :
                         /\ \A m \in 1..Len(s) : ~SortsBefore(s[m], s[k])
                         /\ \A m \in 1..(k - 1) : SortsBefore(s[k], s[m])
             rest == [m \in 1..(Len(s) - 1) |-> IF m < first THEN s[m] ELSE s[m + 1]]
         IN <<s[first]>> \o sortAnalyses(rest)

(***************************************************************************)
(* routes/analyze: the issue summary of processAnalysis                    *)
(***************************************************************************)
CountWhere(s, f, v) == Len(SelectSeq(s, LAMBDA x : x[f] = v))

\* an insight string: its fixed text and the number it starts with, 0 for a
\* string that carries no number
Insight(text, count) == [text |-> text, count |-> count]

\* variant: a single critical issue raises no alert
generateIssuesInsights_alertFromTwo(analyses) ==
    IF Len(analyses) = 0
    THEN << Insight("No issues found for analysis", 0) >>
    ELSE LET criticalIssues == CountWhere(analyses, "priority", "critical")
         IN IF criticalIssues > 1
            THEN << Insight("critical issues require immediate attention",
                            criticalIssues) >>
            ELSE << Insight("Analysis completed successfully", 0) >>

generateIssuesInsights(analyses) ==
    IF Len(analyses) = 0
    THEN << Insight("No issues found for analysis", 0) >>
    ELSE LET criticalIssues == CountWhere(analyses, "priority", "critical")
             highPriorityIssues == CountWhere(analyses, "priority", "high")
             bugCount == CountWhere(analyses, "category", "bug")
             featureCount == CountWhere(analyses, "category", "feature")
             highEffortIssues == CountWhere(analyses, "estimatedEffort", "high")
             totalIssues == Len(analyses)
             filesMentioned == UNION {{a.relatedFiles[m] : m \in 1..Len(a.relatedFiles)} :
                                          a \in {analyses[k] : k \in 1..Len(analyses)}}
             insights ==
                 (IF criticalIssues > 0
                  THEN << Insight("critical issues require immediate attention",
                                  criticalIssues) >> ELSE <<>>)
                 \o (IF highPriorityIssues > 0
                     THEN << Insight("high-priority issues should be addressed soon",
                                     highPriorityIssues) >> ELSE <<>>)
                 \o (IF bugCount > featureCount * 2
                     THEN << Insight("High bug-to-feature ratio", 0) >> ELSE <<>>)
                 \o (IF 10 * highEffortIssues > 3 * totalIssues
                     THEN << Insight("Many issues require significant effort", 0) >> ELSE <<>>)
                 \o (IF Cardinality(filesMentioned) > 0
                     THEN << Insight("Issues reference different files",
                                     Cardinality(filesMentioned)) >> ELSE <<>>)
         IN IF Len(insights) > 0 THEN insights ELSE << Insight("Analysis completed successfully", 0) >>

\* githubIssuesAnalysis: null when the issues are not asked for
NoIssuesAnalysis == [kind |-> "null"]

\* githubIssuesAnalysis as the catch of the issue track sets it
failedIssuesAnalysis(message) ==
    [kind |-> "failed", error |-> message, totalIssues |-> 0, analyses |-> <<>>]

\* githubIssuesAnalysis as the issue track sets it when it succeeds
issuesSummary(issues, issueAnalyses) ==
    [kind |-> "summary",
     totalIssues |-> Len(issues),
     openIssues |-> CountWhere(issues, "state", "open"),
     closedIssues |-> CountWhere(issues, "state", "closed"),
     categorySummary |->
         [bugs |-> CountWhere(issueAnalyses, "category", "bug"),
          features |-> CountWhere(issueAnalyses, "category", "feature"),
          enhancements |-> CountWhere(issueAnalyses, "category", "enhancement"),
          documentation |-> CountWhere(issueAnalyses, "category", "documentation"),
          questions |-> CountWhere(issueAnalyses, "category", "question"),
          other |-> CountWhere(issueAnalyses, "category", "other")],
     prioritySummary |->
         [critical |-> CountWhere(issueAnalyses, "priority", "critical"),
          high |-> CountWhere(issueAnalyses, "priority", "high"),
          medium |-> CountWhere(issueAnalyses, "priority", "medium"),
          low |-> CountWhere(issueAnalyses, "priority", "low")],
     effortSummary |->
         [high |-> CountWhere(issueAnalyses, "estimatedEffort", "high"),
          medium |-> CountWhere(issueAnalyses, "estimatedEffort", "medium"),
          low |-> CountWhere(issueAnalyses, "estimatedEffort", "low")],
     analyses |-> issueAnalyses,
     insights |-> generateIssuesInsights(issueAnalyses)]

(***************************************************************************)
(* The environment of one run: the checkout, the tracker, the reviewer     *)
(***************************************************************************)
\* relative paths of the code files of the checkout, as getCodeFiles sorts them
RepoPaths == << "api/auth.ts", "api/jobs.ts", "lib/db.py", "lib/util.go", "main.ts",
                "ui/app.tsx", "ui/form.tsx", "ui/list.tsx", "ui/nav.tsx", "ui/page.tsx",
                "web/a.js", "web/b.js", "web/c.js" >>

\* path.extname of each path
RepoExtensions == << ".ts", ".ts", ".py", ".go", ".ts",
                     ".tsx", ".tsx", ".tsx", ".tsx", ".tsx", ".js", ".js", ".js" >>

\* the terms of the tracker's issues that occur in the path of file k
pathTermsOf(k) ==
    CASE k = 1 -> {"auth"}
      [] k = 7 -> {"form"}
      [] k = 10 -> {"page"}
      [] k = 11 -> {"a.js"}
      [] OTHER -> {}

\* the whole-word matches in the content of file k, by term: every file but
\* one imports something, and a few hold other words of the issues
contentOf(k) ==
    CASE k = 2 -> [t \in {} |-> 0]
      [] k = 3 -> [t \in {"import", "crash"} |-> IF t = "crash" THEN 3 ELSE 1]
      [] k = 5 -> [t \in {"import"} |-> 2]
      [] k = 8 -> [t \in {"import", "slow"} |-> 1]
      [] OTHER -> [t \in {"import"} |-> 1]

CodeFile(k) ==
    [relativePath |-> RepoPaths[k], extension |-> RepoExtensions[k],
     pathTerms |-> pathTermsOf(k), content |-> contentOf(k)]

\* the lists of code files a discovery of at most n files can return
CodeFileLists(n) == {[k \in 1..m |-> CodeFile(k)] : m \in 0..Min(n, Len(RepoPaths))}

\* issues of the tracker, most recently updated first
\* labels and title: each as the set of the keywords that occur in it;
\* bodyExtensions: the file extensions that occur in the body
Issue(number, state, labels, title, createdAt, text, bodyExtensions) ==
    [number |-> number, state |-> state, labels |-> labels, title |-> title,
     createdAt |-> createdAt, text |-> text, bodyExtensions |-> bodyExtensions]

TrackerIssues ==
    << \* "crash" / "in auth"
       Issue(11, "open", << {"bug"} >>, {"crash"}, 3,
             << Word("crash", 5), Word("in", 2), Word("auth", 4) >>, {}),
       \* "cleanup" / ""
       Issue(12, "closed", << >>, {}, 5, << Word("cleanup", 7) >>, {}),
       \* "parser" / "parser.ts fails", labelled high-priority
       Issue(13, "open", << {"high", "priority"} >>, {}, 1,
             << Word("parser", 6),
                FileName("parser.ts", << Word("parser", 6), Word("ts", 2) >>),
                Word("fails", 5) >>, {".ts"}),
       \* "minor typo" / "on the form page", labelled low and security
       Issue(14, "open", << {"low"}, {"security"} >>, {"minor"}, 4,
             << Word("minor", 5), Word("typo", 4), Word("on", 2), Word("the", 3),
                Word("form", 4), Word("page", 4) >>, {}),
       \* "how" / "import is slow", labelled question
       Issue(15, "open", << {"question"} >>, {}, 2,
             << Word("how", 3), Word("import", 6), Word("is", 2), Word("slow", 4) >>, {}),
       \* "regression" / "see a.js", labelled major
       Issue(16, "open", << {"major"} >>, {"regression"}, 6,
             << Word("regression", 10), Word("see", 3),
                FileName("a.js", << Word("a", 1), Word("js", 2) >>) >>, {".js"}) >>

IssueLists(n) == {SubSeq(TrackerIssues, 1, m) : m \in 0..Min(n, Len(TrackerIssues))}

\* a review the reviewer returns as a JSON object with every field present
CleanReview ==
    [score |-> 90, complexity |-> "low", maintainability |-> 80,
     issues |-> <<>>, suggestions |-> << "Add unit tests" >>]

\* what the reviewer does with a request of the job pipeline
ReviewerResponses ==
    {[kind |-> "throw"], [kind |-> "empty"], [kind |-> "text"],
     [kind |-> "json", value |-> CleanReview]}

(***************************************************************************)
(* State                                                                   *)
(***************************************************************************)
VARIABLES
    analysisStore,      \* Map: analysis id -> job record
    runningProcesses,   \* Set of the ids of the running jobs
    proc,               \* analysis id -> position and locals of its processAnalysis
    input,              \* argument of the function a function specification applies
    output              \* its result

vars == <<analysisStore, runningProcesses, proc, input, output>>

\* Map.prototype.set
MapSet(map, key, value) ==
    [k \in DOMAIN map \cup {key} |-> IF k = key THEN value ELSE map[k]]

\* the object spread { ...rec, ...fields }
Spread(rec, fields) ==
    [k \in DOMAIN rec \cup DOMAIN fields |-> IF k \in DOMAIN fields THEN fields[k] ELSE rec[k]]

Routes == {"issues", "basic"}

CancelledMessage == "Analysis was cancelled"

\* variant: the discovery step reports less than the clone step
progressSteps_discover5 ==
    [issues |-> [clone |-> 10, discover |-> 5, analyze |-> 40, fetch |-> 60,
                 issues |-> 70, report |-> 85],
     basic  |-> [clone |-> 10, discover |-> 5, analyze |-> 50, fetch |-> 50,
                 issues |-> 50, report |-> 80]]

\* the progress values of the two versions of the route
progressSteps ==
    [issues |-> [clone |-> 10, discover |-> 20, analyze |-> 40, fetch |-> 60,
                 issues |-> 70, report |-> 85],
     basic  |-> [clone |-> 10, discover |-> 30, analyze |-> 50, fetch |-> 50,
                 issues |-> 50, report |-> 80]]

stepMessages ==
    [clone |-> "Cloning repository...", discover |-> "Discovering code files...",
     analyze |-> "Analyzing code quality...", fetch |-> "Fetching GitHub issues...",
     issues |-> "Analyzing GitHub issues...",
     report |-> [issues |-> "Generating comprehensive report...",
                 basic |-> "Generating report..."]]

\* the record POST stores
initialRecord(id, route, includeGitHubIssues) ==
    IF route = "issues"
    THEN [id |-> id, includeGitHubIssues |-> includeGitHubIssues,
          status |-> "processing", progress |-> 0]
    ELSE [id |-> id, status |-> "processing", progress |-> 0]

\* the record processAnalysis stores on success: built anew, so the current
\* step of the old record is gone
completedRecord(id, route, includeGitHubIssues, finalReport) ==
    IF route = "issues"
    THEN [id |-> id, includeGitHubIssues |-> includeGitHubIssues,
          status |-> "completed", progress |-> 100, results |-> finalReport]
    ELSE [id |-> id, status |-> "completed", progress |-> 100, results |-> finalReport]

\* variant: the progress is written to the record of every job
updateAnalysisProgress_everyJob(store, running, analysisId, progress, message) ==
    IF analysisId \in DOMAIN store /\ analysisId \in running
    THEN [id \in DOMAIN store |->
             Spread(store[id], [progress |-> progress, currentStep |-> message])]
    ELSE store

updateAnalysisProgress(store, running, analysisId, progress, message) ==
    IF analysisId \in DOMAIN store /\ analysisId \in running
    THEN MapSet(store, analysisId,
                Spread(store[analysisId], [progress |-> progress, currentStep |-> message]))
    ELSE store

\* What the two batch loops of a job have done so far: chunks dispatched and
\* delays begun by analyzeRepository over fileCount files and by analyzeIssues
\* over issueCount issues, and the most analyzeIssue calls pending at once.
initialSched ==
    [fileCount |-> 0, chunks |-> 0, delays |-> 0,
     issueCount |-> 0, issueChunks |-> 0, issueDelays |-> 0, issueCalls |-> 0]

\* locals of processAnalysis at its first await
initialLocals(route, includeGitHubIssues) ==
    [pc |-> "clone", route |-> route, includeGitHubIssues |-> includeGitHubIssues,
     repoData |-> FALSE, dir |-> "absent", error |-> "",
     codeFiles |-> <<>>, i |-> 0, pending |-> {}, settled |-> <<>>, analyses |-> <<>>,
     issues |-> <<>>, ii |-> 0, issueAnalyses |-> <<>>,
     githubIssuesAnalysis |-> NoIssuesAnalysis,
     attempts |-> 0, after |-> "", cleanups |-> 0, sched |-> initialSched]

\* the block-scoped locals of the try block, gone when control leaves it
leaveTry(p) ==
    [p EXCEPT !.codeFiles = <<>>, !.i = 0, !.pending = {}, !.settled = <<>>,
              !.analyses = <<>>, !.issues = <<>>, !.ii = 0, !.issueAnalyses = <<>>]

(***************************************************************************)
(* processAnalysis, as continuations. Each takes the job store and the     *)
(* locals p of job id as they are when control arrives, runs to the next   *)
(* await or to the end, and gives the set of the [store, p] it can leave.  *)
(* running is the running set during the step.                             *)
(***************************************************************************)
\* updateAnalysisProgress(analysisId, <progress of stage>, <message of stage>)
progressTo(store, running, id, p, stage) ==
    updateAnalysisProgress(store, running, id, progressSteps[p.route][stage],
                           IF stage = "report" THEN stepMessages.report[p.route]
                           ELSE stepMessages[stage])

\* GitService.cleanup is called: its first await is fs.pathExists
callCleanup(p, after) ==
    [p EXCEPT !.pc = "pathExists", !.after = after, !.attempts = 0, !.cleanups = @ + 1]

\* variant: the finally block leaves the checkout in place
finallyBlock_noCleanup(store, p) ==
    [store |-> store, p |-> [leaveTry(p) EXCEPT !.pc = "done"]]

\* the finally block: cleanup if the clone had returned, then (after it) the
\* removal from the running set, which the step does when pc becomes "done"
finallyBlock(store, p) ==
    IF p.repoData
    THEN [store |-> store, p |-> callCleanup(leaveTry(p), "finally")]
    ELSE [store |-> store, p |-> [leaveTry(p) EXCEPT !.pc = "done"]]

\* variant: the catch block records nothing
catchBlock_recordsNothing(store, id, p, message) == finallyBlock(store, p)

\* variant: the failed record carries no error message
catchBlock_noMessage(store, id, p, message) ==
    finallyBlock(IF id \in DOMAIN store
                 THEN MapSet(store, id, Spread(store[id], [status |-> "failed"]))
                 ELSE store,
                 p)

\* the catch block, then the finally block
catchBlock(store, id, p, message) ==
    finallyBlock(IF id \in DOMAIN store
                 THEN MapSet(store, id,
                             Spread(store[id], [status |-> "failed", error |-> message]))
                 ELSE store,
                 p)

\* lines 280-310: the last cancellation check, the report, the final record
finishAnalysis(store, running, id, p) ==
    IF id \notin running
    THEN {catchBlock(store, id, p, CancelledMessage)}
    ELSE LET store1 == progressTo(store, running, id, p, "report")
         IN {finallyBlock(MapSet(store1, id,
                                 completedRecord(id, p.route, p.includeGitHubIssues,
                                                 finalReport)),
                          p) :
                finalReport \in generateFinalReport(p.analyses, Len(p.codeFiles),
                                                    p.githubIssuesAnalysis)}

\* GitHubIssuesService.analyzeIssues from the batch at p.ii on: analyzeIssue
\* awaits nothing that leaves the event loop's microtasks, so a batch settles
\* within the step; the delay before the next batch is the next await. After
\* the last batch the analyses are sorted and processAnalysis goes on.
analyzeIssuesFrom(store, running, id, p) ==
    LET batch == Slice(p.issues, p.ii, p.ii + batchSize)
        analyses == p.issueAnalyses
                    \o [k \in 1..Len(batch) |-> analyzeIssue(batch[k], p.codeFiles)]
        p1 == [p EXCEPT !.sched.issueCount = Len(p.issues),
                        !.sched.issueChunks = IF p.ii < Len(p.issues) THEN @ + 1 ELSE @,
                        !.sched.issueCalls = Max(@, Len(batch))]
    IN IF p.ii + batchSize < Len(p.issues)
       THEN {[store |-> store,
              p |-> [p1 EXCEPT !.issueAnalyses = analyses, !.pc = "issueDelay",
                               !.sched.issueDelays = @ + 1]]}
       ELSE finishAnalysis(store, running, id,
                           [p1 EXCEPT !.issueAnalyses = sortAnalyses(analyses),
                                      !.githubIssuesAnalysis =
                                          issuesSummary(p.issues, sortAnalyses(analyses))])

\* variant: no cancellation check after analyzeRepository
afterReview_noCheck(store, running, id, p) ==
    IF p.route = "issues" /\ p.includeGitHubIssues
    THEN {[store |-> progressTo(store, running, id, p, "fetch"),
           p |-> [p EXCEPT !.pc = "fetch"]]}
    ELSE finishAnalysis(store, running, id, p)

\* lines 218-283 after analyzeRepository has returned
afterReview(store, running, id, p) ==
    IF id \notin running
    THEN {catchBlock(store, id, p, CancelledMessage)}
    ELSE IF p.route = "issues" /\ p.includeGitHubIssues
    THEN {[store |-> progressTo(store, running, id, p, "fetch"),
           p |-> [p EXCEPT !.pc = "fetch"]]}
    ELSE finishAnalysis(store, running, id, p)

\* variant: the calls for all the remaining files are made at once
dispatchBatch_unbounded(p) ==
    [p EXCEPT !.pending = (p.i + 1)..Len(p.codeFiles),
              !.settled = <<>>, !.pc = "review", !.sched.chunks = @ + 1]

\* the reviewer calls of the batch that starts at p.i are made
dispatchBatch(p) ==
    [p EXCEPT !.pending = (p.i + 1)..Min(p.i + maxFilesPerBatch, Len(p.codeFiles)),
              !.settled = <<>>, !.pc = "review", !.sched.chunks = @ + 1]

\* AnalysisService.analyzeRepository is called
analyzeRepository(store, running, id, p) ==
    IF Len(p.codeFiles) = 0
    THEN afterReview(store, running, id, p)
    ELSE {[store |-> store,
           p |-> dispatchBatch([p EXCEPT !.i = 0, !.sched.fileCount = Len(p.codeFiles)])]}

\* variant: the verdicts of a batch are appended last call first
batchSettled_reversed(store, running, id, p) ==
    LET hi == Min(p.i + maxFilesPerBatch, Len(p.codeFiles))
        batchAnalyses == [m \in 1..(hi - p.i) |-> p.settled[hi + 1 - m]]
        p1 == [p EXCEPT !.analyses = @ \o batchAnalyses, !.settled = <<>>]
    IN IF p.i + maxFilesPerBatch < Len(p.codeFiles)
       THEN {[store |-> store,
              p |-> [p1 EXCEPT !.pc = "batchDelay", !.sched.delays = @ + 1]]}
       ELSE afterReview(store, running, id, p1)

\* variant: the delay follows every batch, the last one too
batchSettled_alwaysDelays(store, running, id, p) ==
    LET hi == Min(p.i + maxFilesPerBatch, Len(p.codeFiles))
        batchAnalyses == [m \in 1..(hi - p.i) |-> p.settled[p.i + m]]
        p1 == [p EXCEPT !.analyses = @ \o batchAnalyses, !.settled = <<>>]
    IN {[store |-> store,
         p |-> [p1 EXCEPT !.pc = "batchDelay", !.sched.delays = @ + 1]]}

\* a batch has settled: Promise.all gives the verdicts in the order of the batch
batchSettled(store, running, id, p) ==
    LET hi == Min(p.i + maxFilesPerBatch, Len(p.codeFiles))
        batchAnalyses == [m \in 1..(hi - p.i) |-> p.settled[p.i + m]]
        p1 == [p EXCEPT !.analyses = @ \o batchAnalyses, !.settled = <<>>]
    IN IF p.i + maxFilesPerBatch < Len(p.codeFiles)
       THEN {[store |-> store,
              p |-> [p1 EXCEPT !.pc = "batchDelay", !.sched.delays = @ + 1]]}
       ELSE afterReview(store, running, id, p1)

\* variant: a checkout that could not be removed fails the job
cleanupReturns_escalating(store, id, p) ==
    IF p.after = "finally"
    THEN {[store |-> IF p.dir = "present"
                     THEN MapSet(store, id,
                                 Spread(store[id], [status |-> "failed",
                                                    error |-> "Cleanup error"]))
                     ELSE store,
           p |-> [p EXCEPT !.pc = "done"]]}
    ELSE IF p.after = "tooLarge"
    THEN {[store |-> store, p |-> callCleanup(p, "cloneCatch")]}
    ELSE {catchBlock(store, id, p, p.error)}

\* GitService.cleanup returns to its caller
cleanupReturns(store, id, p) ==
    IF p.after = "finally"
    THEN {[store |-> store, p |-> [p EXCEPT !.pc = "done"]]}
    ELSE IF p.after = "tooLarge"
    THEN \* the size check throws inside the try of cloneRepository
         {[store |-> store, p |-> callCleanup(p, "cloneCatch")]}
    ELSE \* cloneRepository throws to processAnalysis
         {catchBlock(store, id, p, p.error)}

(***************************************************************************)
(* Actions                                                                 *)
(***************************************************************************)
Init ==
    /\ analysisStore = <<>>
    /\ runningProcesses = {}
    /\ proc = <<>>
    /\ input = [none |-> TRUE]
    /\ output = [done |-> FALSE]

\* one step of job id that leaves one of outs
Step(id, outs) ==
    \E out \in outs :
        /\ analysisStore' = out.store
        /\ proc' = MapSet(proc, id, IF out.p.pc = "done"
                                    THEN [out.p EXCEPT
                                             !.sched = initialSched,
                                             !.githubIssuesAnalysis = NoIssuesAnalysis]
                                    ELSE out.p)
        /\ runningProcesses' =
              IF out.p.pc = "done" THEN runningProcesses \ {id} ELSE runningProcesses
        /\ UNCHANGED <<input, output>>

At(id, pc) == id \in DOMAIN proc /\ proc[id].pc = pc

\* the id POST gives the next job (uuidv4(): an id not in the store)
nextId == Cardinality(DOMAIN analysisStore) + 1

\* POST / past its validation: the record is stored and processAnalysis runs
\* to its first await, inside cloneRepository
startAnalysis(id, route, includeGitHubIssues) ==
    LET p == initialLocals(route, includeGitHubIssues)
        running == runningProcesses \cup {id}
        store == MapSet(analysisStore, id, initialRecord(id, route, includeGitHubIssues))
    IN /\ analysisStore' = progressTo(store, running, id, p, "clone")
       /\ runningProcesses' = running
       /\ proc' = MapSet(proc, id, p)

\* POST / with a request that passes validation
Post(ids) ==
    /\ nextId \in ids
    /\ \E route \in Routes, includeGitHubIssues \in BOOLEAN :
         /\ route = "basic" => ~includeGitHubIssues
         /\ startAnalysis(nextId, route, includeGitHubIssues)
    /\ UNCHANGED <<input, output>>

CloneOutcomes == {"ok", "tooLarge", "notFound", "error"}

cloneErrors ==
    [tooLarge |-> "Failed to clone repository: Repository is too large",
     notFound |-> "Repository not found or not accessible",
     error |-> "Failed to clone repository"]

\* git.clone and the size check of cloneRepository end
CloneReturns(id) ==
    /\ At(id, "clone")
    /\ \E outcome \in CloneOutcomes :
         LET p == [proc[id] EXCEPT !.dir = "present"]
         IN Step(id,
              IF outcome = "ok"
              THEN LET p1 == [p EXCEPT !.repoData = TRUE]
                   IN IF id \notin runningProcesses
                      THEN {catchBlock(analysisStore, id, p1, CancelledMessage)}
                      ELSE {[store |-> progressTo(analysisStore, runningProcesses, id, p1,
                                                  "discover"),
                             p |-> [p1 EXCEPT !.pc = "discover"]]}
              ELSE {[store |-> analysisStore,
                     p |-> callCleanup([p EXCEPT !.error = cloneErrors[outcome]],
                                       IF outcome = "tooLarge" THEN "tooLarge"
                                       ELSE "cloneCatch")]})

\* getCodeFiles returns at most maxFiles files, or throws
GetCodeFilesReturns(id, maxFiles) ==
    /\ At(id, "discover")
    /\ \/ \E files \in CodeFileLists(maxFiles) :
            LET p == [proc[id] EXCEPT !.codeFiles = files]
            IN Step(id,
                 IF id \notin runningProcesses
                 THEN {catchBlock(analysisStore, id, p, CancelledMessage)}
                 ELSE analyzeRepository(
                          progressTo(analysisStore, runningProcesses, id, p, "analyze"),
                          runningProcesses, id, p))
       \/ Step(id, {catchBlock(analysisStore, id, proc[id], "Failed to read code files")})

\* the reviewer call for file k of the batch in flight settles; with the last
\* of the batch, Promise.all settles and analyzeRepository goes on
ReviewerReturns(id) ==
    /\ At(id, "review")
    /\ \E k \in proc[id].pending, response \in ReviewerResponses :
         LET p == proc[id]
             result == analyzeFile(p.codeFiles[k], response)
             p1 == [p EXCEPT !.pending = @ \ {k},
                             !.settled = MapSet(@, k, result.value)]
         IN Step(id,
              IF result.raised
              THEN {catchBlock(analysisStore, id, p, "analyzeFile rejected")}
              ELSE IF p1.pending = {}
              THEN batchSettled(analysisStore, runningProcesses, id, p1)
              ELSE {[store |-> analysisStore, p |-> p1]})

FetchOutcomes == {"notFound", "rateLimited", "error"}

fetchErrors ==
    [notFound |-> "Repository not found or not accessible",
     rateLimited |-> "GitHub API rate limit exceeded or insufficient permissions",
     error |-> "Failed to fetch repository issues"]

\* variant: what fetchRepositoryIssues throws reaches the catch of processAnalysis
FetchIssuesReturns_escalating(id, maxIssues) ==
    /\ At(id, "fetch")
    /\ \/ \E issues \in IssueLists(maxIssues) :
            LET p == [proc[id] EXCEPT !.issues = issues, !.ii = 0, !.issueAnalyses = <<>>]
            IN Step(id, analyzeIssuesFrom(analysisStore, runningProcesses, id, p))
       \/ \E outcome \in FetchOutcomes :
            Step(id, {catchBlock(analysisStore, id,
                                 [proc[id] EXCEPT !.githubIssuesAnalysis =
                                                      failedIssuesAnalysis(fetchErrors[outcome])],
                                 fetchErrors[outcome])})

\* fetchRepositoryIssues returns at most maxIssues issues, or throws; what the
\* inner try block throws, its own cancellation error too, its catch absorbs
FetchIssuesReturns(id, maxIssues) ==
    /\ At(id, "fetch")
    /\ \/ \E issues \in IssueLists(maxIssues) :
            LET p == [proc[id] EXCEPT !.issues = issues, !.ii = 0, !.issueAnalyses = <<>>]
            IN Step(id,
                 IF id \notin runningProcesses
                 THEN finishAnalysis(analysisStore, runningProcesses, id,
                                     [p EXCEPT !.githubIssuesAnalysis =
                                                   failedIssuesAnalysis(CancelledMessage)])
                 ELSE analyzeIssuesFrom(
                          progressTo(analysisStore, runningProcesses, id, p, "issues"),
                          runningProcesses, id, p))
       \/ \E outcome \in FetchOutcomes :
            Step(id, finishAnalysis(analysisStore, runningProcesses, id,
                                    [proc[id] EXCEPT !.githubIssuesAnalysis =
                                                         failedIssuesAnalysis(fetchErrors[outcome])]))

\* fs.pathExists answers: the loop of removal attempts starts, or cleanup returns
PathExistsReturns(id) ==
    /\ At(id, "pathExists")
    /\ LET p == proc[id]
       IN Step(id,
            IF p.dir = "present"
            THEN {[store |-> analysisStore, p |-> [p EXCEPT !.attempts = 0, !.pc = "remove"]]}
            ELSE cleanupReturns(analysisStore, id, p))

\* fs.remove ends: removed, or failed and retried after a delay unless this
\* was the last attempt
RemoveReturns(id) ==
    /\ At(id, "remove")
    /\ \E removed \in BOOLEAN :
         LET p == proc[id]
         IN Step(id,
              IF removed
              THEN cleanupReturns(analysisStore, id, [p EXCEPT !.dir = "absent"])
              ELSE IF p.attempts + 1 >= maxAttempts
              THEN cleanupReturns(analysisStore, id, [p EXCEPT !.attempts = @ + 1])
              ELSE {[store |-> analysisStore,
                     p |-> [p EXCEPT !.attempts = @ + 1, !.pc = "retryWait"]]})

\* a setTimeout of job id elapses: the delay between two batches of files,
\* between two batches of issues, or before the next removal attempt
TimerFires(id) ==
    /\ id \in DOMAIN proc
    /\ proc[id].pc \in {"batchDelay", "issueDelay", "retryWait"}
    /\ LET p == proc[id]
       IN Step(id,
            IF p.pc = "batchDelay"
            THEN {[store |-> analysisStore,
                   p |-> dispatchBatch([p EXCEPT !.i = @ + maxFilesPerBatch])]}
            ELSE IF p.pc = "issueDelay"
            THEN analyzeIssuesFrom(analysisStore, runningProcesses, id,
                                   [p EXCEPT !.ii = @ + batchSize])
            ELSE {[store |-> analysisStore, p |-> [p EXCEPT !.pc = "remove"]]})

\* cleanupRunningAnalyses()
CleanupRunningAnalyses ==
    /\ runningProcesses # {}
    /\ runningProcesses' = {}
    /\ UNCHANGED <<analysisStore, proc, input, output>>

\* GET /:id/issues: the handler reads the store and changes nothing, so it is
\* the response as a function of the store
getIssues(store, id) ==
    IF id \notin DOMAIN store
    THEN [status |-> 404, error |-> "Analysis not found"]
    ELSE IF ~("results" \in DOMAIN store[id] /\ "githubIssues" \in DOMAIN store[id].results)
    THEN [status |-> 404,
          error |-> "GitHub issues analysis not available for this repository"]
    ELSE [status |-> 200, analysisId |-> id,
          githubIssues |-> store[id].results.githubIssues]

Pipeline(ids, maxFiles, maxIssues) ==
    \/ Post(ids)
    \/ CleanupRunningAnalyses
    \/ \E id \in ids :
         \/ CloneReturns(id)
         \/ GetCodeFilesReturns(id, maxFiles)
         \/ ReviewerReturns(id)
         \/ FetchIssuesReturns(id, maxIssues)
         \/ PathExistsReturns(id)
         \/ RemoveReturns(id)
         \/ TimerFires(id)

\* one job, with enough files and issues for a second batch of each
Next == Pipeline({1}, MaxFiles, MaxIssues)

Spec == Init /\ [][Next]_vars

\* two jobs that run concurrently, each with few files and issues
NextJobs == Pipeline({1, 2}, MaxJobFiles, MaxJobIssues)

SpecJobs == Init /\ [][NextJobs]_vars

\* one job with few files and issues; every call it makes to the file system
\* returns and every timer it sets fires
NextFair == Pipeline({1}, MaxJobFiles, MaxJobIssues)

SpecFair ==
    /\ Init /\ [][NextFair]_vars
    /\ WF_vars(PathExistsReturns(1))
    /\ WF_vars(RemoveReturns(1))
    /\ WF_vars(TimerFires(1))

\* job id waits for one of its timers
AtTimer(id) == id \in DOMAIN proc /\ proc[id].pc \in {"batchDelay", "issueDelay", "retryWait"}

\* One job with files and issues for a second batch of each; every external
\* call it awaits (clone, file discovery, reviewer, issue tracker, checkout
\* removal) returns or throws and every timer fires. For the steps that run
\* the pipeline on to its next await the weak fairness is written out, with
\* the enabling condition of the step (the job is at that await) in place of
\* ENABLED.
SpecLive ==
    /\ Init /\ [][Next]_vars
    /\ WF_vars(CloneReturns(1))
    /\ ([]<>(~At(1, "discover")) \/ []<><<GetCodeFilesReturns(1, MaxFiles)>>_vars)
    /\ ([]<>(~At(1, "review")) \/ []<><<ReviewerReturns(1)>>_vars)
    /\ ([]<>(~At(1, "fetch")) \/ []<><<FetchIssuesReturns(1, MaxIssues)>>_vars)
    /\ WF_vars(PathExistsReturns(1))
    /\ WF_vars(RemoveReturns(1))
    /\ ([]<>(~AtTimer(1)) \/ []<><<TimerFires(1)>>_vars)

(***************************************************************************)
(* Function specifications: the arguments are drawn in the initial state   *)
(* and one action applies the function.                                    *)
(***************************************************************************)
Finding(type, severity, message, suggestion) ==
    [type |-> type, severity |-> severity, message |-> message, suggestion |-> suggestion]

Verdict(path, score, maintainability, complexity, issues) ==
    [filePath |-> path, score |-> score, issues |-> issues, suggestions |-> <<>>,
     complexity |-> complexity, maintainability |-> maintainability]

\* verdicts the aggregation is applied to
VerdictPool ==
    { Verdict("main.ts", 95, 100, "low", <<>>),
      fallbackAnalysis(CodeFile(3)),
      Verdict("api/auth.ts", 20, 0, "high",
              << Finding("security", "critical", "SQL built from input", "Sanitize input") >>),
      Verdict("lib/util.go", 70, 75, "medium",
              << Finding("performance", "high", "Quadratic loop", "Use a map"),
                 Finding("style", "low", "Long line", "Wrap lines") >>),
      Verdict("api/jobs.ts", 65, 40, "medium",
              << Finding("bug", "low", "Unchecked index", "Check bounds"),
                 Finding("security", "low", "Verbose error", "Hide details") >>),
      Verdict("ui/app.tsx", 35, 85, "high",
              << Finding("performance", "critical", "Blocking read", "Sanitize input"),
                 Finding("quality", "high", "Duplicated code", "Use a map"),
                 Finding("security", "high", "Token in log", "Hide details") >>),
      Verdict("ui/form.tsx", 55, 55, "low",
              << Finding("security", "medium", "Weak hash", "Use bcrypt"),
                 Finding("performance", "low", "Extra render", ""),
                 Finding("style", "high", "Mixed naming", "Wrap lines") >>),
      Verdict("ui/list.tsx", 80, 90, "low",
              << Finding("bug", "high", "Stale closure", ""),
                 Finding("performance", "medium", "Large bundle", "Split bundle") >>) }

VerdictLists(n) == UNION {[1..m -> VerdictPool] : m \in 0..n}

InitReport ==
    /\ Init!1 /\ Init!2 /\ Init!3
    /\ input \in {[analyses |-> l] : l \in VerdictLists(MaxVerdicts)}
    /\ output = [done |-> FALSE]

\* generateFinalReport(fileAnalyses, { totalFiles: fileAnalyses.length, ... })
GenerateFinalReport ==
    /\ ~output.done
    /\ \E finalReport \in generateFinalReport(input.analyses, Len(input.analyses),
                                                NoIssuesAnalysis) :
         output' = [done |-> TRUE, report |-> finalReport]
    /\ UNCHANGED <<analysisStore, runningProcesses, proc, input>>

SpecReport == InitReport /\ [][GenerateFinalReport]_vars

\* the JSON objects among the reviewer's answers
ReviewObjects ==
    { CleanReview,
      [score |-> 0],
      [score |-> 35, complexity |-> "", maintainability |-> 0, issues |-> <<>>],
      [score |-> 100, complexity |-> "high", maintainability |-> 45,
       issues |-> << Finding("security", "critical", "Hard-coded key", "Use a vault") >>,
       suggestions |-> <<>>] }

\* everything the reviewer can do with one request
AllResponses ==
    {[kind |-> "throw"], [kind |-> "empty"], [kind |-> "text"], [kind |-> "null"]}
    \cup {[kind |-> "json", value |-> v] : v \in ReviewObjects}

InitReview ==
    /\ Init!1 /\ Init!2 /\ Init!3
    /\ input \in {[file |-> CodeFile(k), response |-> r] :
                     k \in 1..Len(RepoPaths), r \in AllResponses}
    /\ output = [done |-> FALSE]

\* analyzeFile(file), the reviewer answering input.response
AnalyzeFile ==
    /\ ~output.done
    /\ output' = [done |-> TRUE, result |-> analyzeFile(input.file, input.response)]
    /\ UNCHANGED <<analysisStore, runningProcesses, proc, input>>

SpecReview == InitReview /\ [][AnalyzeFile]_vars

\* the issues the summary is computed over
SummaryIssues == SubSeq(TrackerIssues, 1, 5)

\* analyzeIssues(issues, codeFiles) as a whole: the analyses in the order of
\* the issues, then sorted
analyzeIssues(issues, codeFiles) ==
    sortAnalyses([k \in 1..Len(issues) |-> analyzeIssue(issues[k], codeFiles)])

RECURSIVE SeqsUpTo(_, _)
SeqsUpTo(pool, n) ==
    IF n = 0 THEN {<<>>}
    ELSE SeqsUpTo(pool, n - 1)
         \cup {Append(s, x) : s \in {t \in SeqsUpTo(pool, n - 1) : Len(t) = n - 1},
                               x \in pool}

InitSummary ==
    /\ Init!1 /\ Init!2 /\ Init!3
    /\ input \in {[issues |-> issues, codeFiles |-> [k \in 1..3 |-> CodeFile(k)]] :
                     issues \in SeqsUpTo({SummaryIssues[k] : k \in 1..Len(SummaryIssues)},
                                         MaxSummaryIssues)}
    /\ output = [done |-> FALSE]

\* the issue track of processAnalysis from the fetched issues to the summary
SummariseIssues ==
    /\ ~output.done
    /\ LET issueAnalyses == analyzeIssues(input.issues, input.codeFiles)
       IN output' = [done |-> TRUE,
                     githubIssuesAnalysis |-> issuesSummary(input.issues, issueAnalyses)]
    /\ UNCHANGED <<analysisStore, runningProcesses, proc, input>>

SpecSummary == InitSummary /\ [][SummariseIssues]_vars

\* the text of a title of the keywords of title, one word each
TitleLengths == [security |-> 8, blocker |-> 7, cosmetic |-> 8]

\* issues whose labels, title and state match the rules of several priorities
PriorityIssues ==
    {Issue(20, state, labels, title, 1,
           IF title = {} THEN <<>>
           ELSE LET w == CHOOSE x \in title : TRUE IN << Word(w, TitleLengths[w]) >>,
           {}) :
        state \in {"open", "closed"},
        labels \in {<<>>, << {"low"} >>, << {"high", "priority"} >>, << {"urgent"} >>,
                    << {"low"}, {"critical"} >>},
        title \in {{}, {"security"}, {"blocker"}, {"cosmetic"}}}

InitCorrelate ==
    /\ Init!1 /\ Init!2 /\ Init!3
    /\ input \in {[issue |-> issue, codeFiles |-> codeFiles] :
                     issue \in PriorityIssues
                                \cup {TrackerIssues[k] : k \in 1..Len(TrackerIssues)},
                     codeFiles \in CodeFileLists(MaxRelatedFiles)}
    /\ output = [done |-> FALSE]

\* analyzeIssue(issue, codeFiles)
AnalyzeIssue ==
    /\ ~output.done
    /\ output' = [done |-> TRUE, result |-> analyzeIssue(input.issue, input.codeFiles)]
    /\ UNCHANGED <<analysisStore, runningProcesses, proc, input>>

SpecCorrelate == InitCorrelate /\ [][AnalyzeIssue]_vars

\* contents of n lines: numbered lines, one line repeated, and a content that
\* holds the text of the marker among its own lines
Contents(n) ==
    {[k \in 1..n |-> ToString(k)],
     [k \in 1..n |-> "}"],
     [k \in 1..n |-> MarkerLines[(k % 3) + 1]]}

InitTruncate ==
    /\ Init!1 /\ Init!2 /\ Init!3
    /\ input \in {[content |-> content] :
                     content \in UNION {Contents(n) : n \in 1..MaxLines}}
    /\ output = [done |-> FALSE]

\* truncateContent(content)
TruncateContent ==
    /\ ~output.done
    /\ output' = [done |-> TRUE, result |-> truncateContent(input.content)]
    /\ UNCHANGED <<analysisStore, runningProcesses, proc, input>>

SpecTruncate == InitTruncate /\ [][TruncateContent]_vars

(***************************************************************************)
(* GitService.getCodeFiles. A relative path is the sequence of its         *)
(* segments and a segment the sequence of its pieces, cut so that an       *)
(* ignored name or the letters "log" in it are a piece of their own:       *)
(* "testimonials.ts" is << "test", "imonials", ".ts" >>.                   *)
(***************************************************************************)
ignorePaths ==
    {".git", "node_modules", "dist", "build", ".next", "target", "vendor",
     "__pycache__", ".venv", "venv", "coverage", ".nyc_output", "logs", "*.log",
     "test", "tests", "__tests__", "spec", "specs", "fixtures", "mock", "mocks",
     "package-lock.json"}

supportedExtensions ==
    {".js", ".jsx", ".ts", ".tsx", ".py", ".java", ".cpp", ".c", ".h", ".go", ".rs",
     ".php", ".rb", ".swift", ".kt", ".scala", ".cs", ".html", ".css", ".scss",
     ".less", ".vue", ".svelte", ".json", ".yaml", ".yml"}

maxFileSize == 2 * 1024 * 1024
maxPathLength == 240
maxDepth == 10
maxFiles == 200

\* the pieces in which the letters "log" occur
LogPieces == {"log", "logs"}

\* the pieces of a path in a row, "/" between two segments
RECURSIVE PathPieces(_)
PathPieces(path) ==
    IF path = <<>> THEN <<>>
    ELSE IF Len(path) = 1 THEN path[1]
    ELSE path[1] \o << "/" >> \o PathPieces(Tail(path))

\* new RegExp('.*.log').test(relativePath): "log" with a character before it
testLogPattern(path) ==
    LET pieces == PathPieces(path)
    IN \E k \in 2..Len(pieces) : pieces[k] \in LogPieces

shouldIgnorePath(path) ==
    \E ignorePath \in ignorePaths :
        IF ignorePath = "*.log"
        THEN testLogPattern(path)
        ELSE \/ \E k \in 1..Len(path) : path[k] = << ignorePath >>
             \/ path[1][1] = ignorePath

\* a file of the checkout
TreeFile(path, relativePath, extension, size, pathLength, readable) ==
    [path |-> path, relativePath |-> relativePath, extension |-> extension,
     size |-> size, pathLength |-> pathLength, readable |-> readable]

\* the files a checkout may hold, in the order of localeCompare on relativePath
TreeFiles ==
    << TreeFile(<< <<"a">>, <<"a">>, <<"a">>, <<"a">>, <<"a">>, <<"a">>, <<"a">>,
                   <<"a">>, <<"a">>, <<"a">>, <<"deep", ".ts">> >>,
                "a/a/a/a/a/a/a/a/a/a/deep.ts", ".ts", 1000, 60, TRUE),
       TreeFile(<< <<"app", ".", "log">> >>, "app.log", ".log", 1000, 40, TRUE),
       TreeFile(<< <<"node_modules">>, <<"lib">>, <<"index", ".js">> >>,
                "node_modules/lib/index.js", ".js", 1000, 60, TRUE),
       TreeFile(<< <<"README", ".md">> >>, "README.md", ".md", 1000, 40, TRUE),
       TreeFile(<< <<"src">>, <<"app", ".ts">> >>, "src/app.ts", ".ts", 1000, 40, TRUE),
       TreeFile(<< <<"src">>, <<"big", ".json">> >>, "src/big.json", ".json",
                3 * 1024 * 1024, 40, TRUE),
       TreeFile(<< <<"src">>, <<"cata", "log", ".ts">> >>, "src/catalog.ts", ".ts",
                1000, 40, TRUE),
       TreeFile(<< <<"src">>, <<"key", ".json">> >>, "src/key.json", ".json",
                1000, 40, FALSE),
       TreeFile(<< <<"src">>, <<"log", "in", ".ts">> >>, "src/login.ts", ".ts",
                1000, 40, TRUE),
       TreeFile(<< <<"src">>, <<"test">>, <<"util", ".ts">> >>, "src/test/util.ts",
                ".ts", 1000, 50, TRUE),
       TreeFile(<< <<"src">>, <<"very-long-name", ".ts">> >>, "src/very-long-name.ts",
                ".ts", 1000, 250, TRUE),
       TreeFile(<< <<"test", "imonials", ".ts">> >>, "testimonials.ts", ".ts",
                1000, 40, TRUE) >>

\* walkDirectory comes to the file: no directory above it is ignored or at
\* depth 10 or more
IsWalked(file) ==
    \A d \in 1..(Len(file.path) - 1) :
        ~shouldIgnorePath(SubSeq(file.path, 1, d)) /\ d < maxDepth

\* walkDirectory pushes the file
IsPushed(file) ==
    /\ IsWalked(file)
    /\ ~shouldIgnorePath(file.path)
    /\ file.pathLength <= maxPathLength
    /\ file.extension \in supportedExtensions
    /\ file.size <= maxFileSize
    /\ file.readable

\* getCodeFiles over the checkout that holds the files of TreeFiles at the
\* indexes of tree: the relative paths of the files returned
getCodeFiles(tree) ==
    LET codeFiles == SelectSeq(TreeFiles,
                               LAMBDA f : (\E k \in tree : TreeFiles[k] = f) /\ IsPushed(f))
        filteredFiles == SelectSeq(codeFiles,
                                   LAMBDA f : /\ f.size <= maxFileSize
                                              /\ f.pathLength <= maxPathLength)
    IN Pluck(Slice(filteredFiles, 0, maxFiles), "relativePath")

InitDiscover ==
    /\ Init!1 /\ Init!2 /\ Init!3
    /\ input \in {[tree |-> tree] :
                     tree \in {t \in SUBSET (1..Len(TreeFiles)) :
                                  Cardinality(t) <= MaxTreeFiles}}
    /\ output = [done |-> FALSE]

\* getCodeFiles(repoDir)
GetCodeFiles ==
    /\ ~output.done
    /\ output' = [done |-> TRUE, result |-> getCodeFiles(input.tree)]
    /\ UNCHANGED <<analysisStore, runningProcesses, proc, input>>

SpecDiscover == InitDiscover /\ [][GetCodeFiles]_vars

(***************************************************************************)
(* POST / with its validation. A URL is held as the sequence of its        *)
(* lexical pieces: the scheme with its "://", a host or name (a run of     *)
(* characters of [\w\-.]), "/", a blank, or other text.                     *)
(***************************************************************************)
\* pieces made only of characters of the class [\w\-\.]
NameTokens == {"github.com", "gitlab.com", "bitbucket.org", "octo", "repo", ".git",
               "tree", "user", "user.github.com"}

\* pieces in which the text github.com occurs
GitHubTokens == {"github.com", "user.github.com"}

Url(tokens) == [type |-> "string", tokens |-> tokens]

RepositoryUrls ==
    { Url(<<"https://", "github.com", "/", "octo", "/", "repo">>),
      Url(<<"https://", "github.com", "/", "octo", "/", "repo", ".git">>),
      Url(<<" ", "https://", "github.com", "/", "octo", "/", "repo", "/", " ">>),
      Url(<<"https://", "gitlab.com", "/", "octo", "/", "repo">>),
      Url(<<"https://", "gitlab.com", "/", "user", "/", "user.github.com">>),
      Url(<<"https://", "bitbucket.org", "/", "octo", "/", "repo">>),
      Url(<<"http://", "github.com", "/", "octo", "/", "repo">>),
      Url(<<"https://", "github.com", "/", "octo", "/", "repo", "/", "tree">>),
      Url(<<"https://", "github.com", "/", "octo">>),
      Url(<<>>),
      [type |-> "number", value |-> 42] }

\* request bodies: repositoryUrl and includeGitHubIssues are optional
Requests ==
    LET urls == {[repositoryUrl |-> u] : u \in RepositoryUrls} \cup {[body |-> TRUE]}
    IN urls \cup {Spread(r, [includeGitHubIssues |-> b]) : r \in urls, b \in BOOLEAN}

\* String.prototype.trim
RECURSIVE trim(_)
trim(t) ==
    IF t # <<>> /\ Head(t) = " " THEN trim(Tail(t))
    ELSE IF t # <<>> /\ t[Len(t)] = " " THEN trim(SubSeq(t, 1, Len(t) - 1))
    ELSE t

\* t[from..to] is a non-empty run of characters of [\w\-\.]
IsName(t, from, to) == from <= to /\ \A m \in from..to : t[m] \in NameTokens

\* /^https:\/\/<host>\/[\w\-\.]+\/[\w\-\.]+\/?$/ when ~git, and
\* /^https:\/\/<host>\/[\w\-\.]+\/[\w\-\.]+\.git$/ when git
testPattern(t, host, git) ==
    /\ Len(t) >= 6
    /\ t[1] = "https://" /\ t[2] = host /\ t[3] = "/"
    /\ \E j \in 4..Len(t), k \in 4..Len(t) :
          /\ IsName(t, 4, j)
          /\ j + 1 < k + 1 /\ t[j + 1] = "/"
          /\ IsName(t, j + 2, k)
          /\ IF git
             THEN k + 1 = Len(t) /\ t[k + 1] = ".git"
             ELSE k = Len(t) \/ (k + 1 = Len(t) /\ t[k + 1] = "/")

validateRepoUrl(url) ==
    IF url.type # "string" \/ url.tokens = <<>>
    THEN FALSE
    ELSE \E host \in {"github.com", "gitlab.com"}, git \in BOOLEAN :
            testPattern(trim(url.tokens), host, git)

\* !repositoryUrl: the field is missing or holds the empty string
IsMissing(req) ==
    \/ "repositoryUrl" \notin DOMAIN req
    \/ req.repositoryUrl.type = "string" /\ req.repositoryUrl.tokens = <<>>

\* repositoryUrl.includes('github.com')
includesGitHub(url) == \E m \in 1..Len(url.tokens) : url.tokens[m] \in GitHubTokens

\* const { includeGitHubIssues = true } = req.body
includeGitHubIssuesOf(req) ==
    IF "includeGitHubIssues" \in DOMAIN req THEN req.includeGitHubIssues ELSE TRUE

BadRequest(req, route, error) ==
    [done |-> TRUE, request |-> req, route |-> route, status |-> 400, error |-> error]

\* router.post('/') of either version of the route, whole: the response is
\* held in output
HandlePost(ids) ==
    \E req \in Requests, route \in Routes :
        IF IsMissing(req)
        THEN /\ output' = BadRequest(req, route, "Repository URL is required")
             /\ UNCHANGED <<analysisStore, runningProcesses, proc, input>>
        ELSE IF ~validateRepoUrl(req.repositoryUrl)
        THEN /\ output' = BadRequest(req, route, "Invalid repository URL")
             /\ UNCHANGED <<analysisStore, runningProcesses, proc, input>>
        ELSE IF /\ route = "issues"
                /\ includeGitHubIssuesOf(req)
                /\ ~includesGitHub(req.repositoryUrl)
        THEN /\ output' = BadRequest(req, route, "GitHub issues analysis is only available for GitHub repositories")
             /\ UNCHANGED <<analysisStore, runningProcesses, proc, input>>
        ELSE /\ nextId \in ids
             /\ startAnalysis(nextId, route,
                              route = "issues" /\ includeGitHubIssuesOf(req))
             /\ output' = [done |-> TRUE, request |-> req, route |-> route,
                            status |-> 200, analysisId |-> nextId,
                            jobStatus |-> "processing"]
             /\ UNCHANGED input

\* requests arrive while up to three jobs are at their clone, cancelled or not
NextPost == HandlePost({1, 2, 3}) \/ CleanupRunningAnalyses

SpecPost == Init /\ [][NextPost]_vars

(***************************************************************************)
(* Properties                                                              *)
(***************************************************************************)
IsFallback(v) == v.score = 60 /\ Len(v.issues) = 1

\* C1: analyzeRepository returns exactly one verdict per input file, the i-th
\* verdict carrying the i-th file's relativePath, whatever the order in which
\* the reviewer calls settle and whichever of them fail. While it runs, the
\* verdicts collected so far are those of the first files, in order; once it
\* has returned (the job awaits the issue fetch or an issue batch delay with
\* the result in analysisResults) there is one per file.
C1_OrderPreserved ==
    \A id \in DOMAIN proc :
        LET p == proc[id]
        IN /\ Len(p.analyses) <= Len(p.codeFiles)
           /\ \A k \in 1..Len(p.analyses) :
                 p.analyses[k].filePath = p.codeFiles[k].relativePath
           /\ p.pc \in {"fetch", "issueDelay"} => Len(p.analyses) = Len(p.codeFiles)

\* analyzeRepository has returned the verdicts of two batches, failures among them
C1_Witness ==
    \E id \in DOMAIN proc :
        LET p == proc[id]
        IN /\ p.pc = "fetch"
           /\ Len(p.codeFiles) > maxFilesPerBatch
           /\ Len(p.analyses) = Len(p.codeFiles)
           /\ IsFallback(p.analyses[2]) /\ ~IsFallback(p.analyses[1])
           /\ IsFallback(p.analyses[Len(p.analyses)])

\* C2: analyzeFile never raises, and when the reviewer throws, answers nothing
\* or answers text that is not JSON, its result is the fixed fallback verdict:
\* the file's path, score 60, maintainability 60, complexity medium, one issue
\* of type quality and severity medium, one suggestion.
C2_FallbackVerdict ==
    output.done /\ "result" \in DOMAIN output =>
        /\ ~output.result.raised
        /\ input.response.kind \in {"throw", "empty", "text"} =>
              LET v == output.result.value
              IN /\ v.filePath = input.file.relativePath
                 /\ v.score = 60
                 /\ v.maintainability = 60
                 /\ v.complexity = "medium"
                 /\ Len(v.issues) = 1
                 /\ v.issues[1].type = "quality"
                 /\ v.issues[1].severity = "medium"
                 /\ Len(v.suggestions) = 1

\* the reviewer answered text that is not JSON and analyzeFile returned
C2_Witness ==
    /\ output.done /\ "result" \in DOMAIN output
    /\ input.response.kind = "text"
    /\ output.result.value.score = 60

AcquisitionErrors ==
    {cloneErrors[k] : k \in DOMAIN cloneErrors} \cup {"Failed to read code files"}

\* C3: reviewer failures never fail a job. A job is only ever recorded failed
\* with a cancellation or an acquisition error, and it is recorded failed for
\* cancellation only in a step that finds it cancelled; a job that has ended
\* is completed or failed; and a completed job's report holds one verdict per
\* discovered file, the fallback verdict for a file whose review failed, its
\* overall score being the one computed from all these verdicts.
C3_StoreOk ==
    \A id \in DOMAIN analysisStore :
        LET rec == analysisStore[id]
        IN /\ rec.status = "failed" =>
                 rec.error \in AcquisitionErrors \cup {CancelledMessage}
           /\ proc[id].pc = "done" => rec.status \in {"completed", "failed"}
           /\ rec.status = "completed" =>
                 LET r == rec.results
                 IN /\ Len(r.fileAnalysis) = r.overview.totalFiles
                    /\ \A k \in 1..Len(r.fileAnalysis) :
                          \/ r.fileAnalysis[k] = fallbackAnalysis(CodeFile(k))
                          \/ /\ r.fileAnalysis[k].filePath = RepoPaths[k]
                             /\ r.fileAnalysis[k].score = CleanReview.score
                    /\ r.overview.overallScore \in
                          calculateOverallScore(calculateCategoryScores(r.fileAnalysis))

C3_FailsOnlyCancelled ==
    \A id \in DOMAIN analysisStore :
        (/\ analysisStore[id].status = "processing"
         /\ analysisStore'[id].status = "failed"
         /\ analysisStore'[id].error = CancelledMessage) => id \notin runningProcesses

C3_ReviewerFailuresTolerated == []C3_StoreOk /\ [][C3_FailsOnlyCancelled]_vars

\* a job of three files, one of them with the fallback verdict, has completed
C3_Witness ==
    \E id \in DOMAIN analysisStore :
        /\ analysisStore[id].status = "completed"
        /\ LET fa == analysisStore[id].results.fileAnalysis
           IN /\ Len(fa) = 3
              /\ IsFallback(fa[2]) /\ ~IsFallback(fa[1]) /\ ~IsFallback(fa[3])

\* C4: once a job record's status is completed or failed no step changes it,
\* be it a step of the job (its cleanup), a cancellation or a step of another
\* job: the status never returns to processing.
C4_TerminalStatusStable ==
    [][\A id \in DOMAIN analysisStore :
          analysisStore[id].status \in {"completed", "failed"} =>
              analysisStore'[id].status = analysisStore[id].status]_vars

\* one job has ended completed while the other, submitted too, is past its clone
C4_Witness ==
    \E a, b \in DOMAIN analysisStore :
        /\ a # b
        /\ analysisStore[a].status = "completed" /\ proc[a].pc = "done"
        /\ analysisStore[b].status = "processing" /\ analysisStore[b].progress > 10

\* C5: the progress stored in a job record is always within 0..100 and no
\* step lowers it.
C5_ProgressInRange ==
    \A id \in DOMAIN analysisStore : analysisStore[id].progress \in 0..100

C5_ProgressMonotone ==
    [][\A id \in DOMAIN analysisStore :
          analysisStore'[id].progress >= analysisStore[id].progress]_vars

C5_Progress == []C5_ProgressInRange /\ C5_ProgressMonotone

\* a job has reached 100 while the other was cancelled during its file review
C5_Witness ==
    \E a, b \in DOMAIN analysisStore :
        /\ analysisStore[a].progress = 100
        /\ analysisStore[b].status = "failed"
        /\ analysisStore[b].progress \in {40, 50}

\* C6: a job record carries a final report exactly when its status is
\* completed, and an error message exactly when its status is failed.
C6_ReportIffCompleted ==
    \A id \in DOMAIN analysisStore :
        LET rec == analysisStore[id]
        IN /\ ("results" \in DOMAIN rec) <=> (rec.status = "completed")
           /\ ("error" \in DOMAIN rec) <=> (rec.status = "failed")

\* one job completed and one job failed
C6_Witness ==
    \E a, b \in DOMAIN analysisStore :
        /\ analysisStore[a].status = "completed" /\ "results" \in DOMAIN analysisStore[a]
        /\ analysisStore[b].status = "failed" /\ "error" \in DOMAIN analysisStore[b]

\* the job is cancelled and in its file review or its issue review
CancelledInReview(id, running, procs) ==
    /\ id \in DOMAIN procs
    /\ id \notin running
    /\ procs[id].pc \in {"review", "batchDelay", "issueDelay"}

FailedAsCancelled(rec) == rec.status = "failed" /\ rec.error = CancelledMessage

\* C7: a job cancelled during its file review or its issue review stays in
\* that review, still recorded as processing, until the step that ends the
\* review; that step records it failed with the cancellation message and calls
\* the cleanup of its checkout; and a record failed for cancellation stays so.
C7_CancelStep ==
    \A id \in DOMAIN proc :
        /\ CancelledInReview(id, runningProcesses, proc) =>
              /\ analysisStore[id].status = "processing"
              /\ \/ CancelledInReview(id, runningProcesses', proc')
                 \/ /\ FailedAsCancelled(analysisStore'[id])
                    /\ proc'[id].pc = "pathExists"
                    /\ proc'[id].cleanups = proc[id].cleanups + 1
        /\ FailedAsCancelled(analysisStore[id]) => FailedAsCancelled(analysisStore'[id])

C7_CancelledMidReviewFails == [][C7_CancelStep]_vars

\* a job cancelled after its file review began (progress 40) and before it
\* ended has run to its end: failed for cancellation, cleanup called
C7_Witness ==
    \E id \in DOMAIN proc :
        /\ proc[id].pc = "done" /\ proc[id].route = "issues"
        /\ FailedAsCancelled(analysisStore[id])
        /\ analysisStore[id].progress = 40
        /\ proc[id].cleanups = 1

Reported == output.done /\ "report" \in DOMAIN output

\* C8: for a non-empty list of verdicts with maintainability in 0..100 and
\* severities among low, medium, high, critical, the four category scores and
\* the overall score of the report are in 0..100.
C8_ScoresInRange ==
    (/\ Reported
     /\ Len(input.analyses) > 0
     /\ \A k \in 1..Len(input.analyses) :
           /\ input.analyses[k].score \in 0..100
           /\ input.analyses[k].maintainability \in 0..100
           /\ \A m \in 1..Len(input.analyses[k].issues) :
                 input.analyses[k].issues[m].severity \in Severities)
    => /\ \A c \in {"codeQuality", "security", "performance", "maintainability"} :
             output.report.categories[c].score \in 0..100
       /\ output.report.overview.overallScore \in 0..100

\* a report whose security score was floored at 0 and whose maintainability
\* is the rounded mean of three values
C8_Witness ==
    /\ Reported
    /\ Len(input.analyses) = 3
    /\ output.report.categories.security.score = 0
    /\ output.report.categories.maintainability.score = 67

AnyCritical(analyses) ==
    \E k \in 1..Len(analyses) :
        \E m \in 1..Len(analyses[k].issues) : analyses[k].issues[m].severity = "critical"

Below(score, limit) == score # NaN /\ score < limit

\* C9: the risk level is critical if any issue of any verdict is critical or
\* the overall score is below 40, else high below 60, else medium below 80,
\* else low.
C9_RiskLevel ==
    Reported =>
        LET score == output.report.overview.overallScore
        IN output.report.overview.riskLevel =
              IF AnyCritical(input.analyses) \/ Below(score, 40) THEN "critical"
              ELSE IF Below(score, 60) THEN "high"
              ELSE IF Below(score, 80) THEN "medium"
              ELSE "low"

\* a critical issue makes the level critical at a score that alone gives high
C9_Witness ==
    /\ Reported
    /\ AnyCritical(input.analyses)
    /\ output.report.overview.overallScore \in 40..59
    /\ output.report.overview.riskLevel = "critical"

\* the issues of the verdicts whose type is one of types, as the claim pools them
Bucket(analyses, types) ==
    SelectSeq(allIssues(analyses), LAMBDA i : i.type \in types)

ClaimedWeight(severity) ==
    CASE severity = "low" -> 1 [] severity = "medium" -> 3
      [] severity = "high" -> 7 [] severity = "critical" -> 15

\* score is max(0, round(100 - 100 * W / (fileCount * 5))), round being the
\* nearest integer
IsClaimedScore(score, bucket, fileCount) ==
    LET W == SumSeq([k \in 1..Len(bucket) |-> ClaimedWeight(bucket[k].severity)])
        den == fileCount * 5
        num == 100 * den - 100 * W
    IN \E r \in (0 - 300 * Len(bucket))..100 :
          /\ 2 * r * den - den <= 2 * num /\ 2 * num <= 2 * r * den + den
          /\ score = IF r < 0 THEN 0 ELSE r

\* C10: the score of a category is 85 for an empty bucket, and otherwise
\* max(0, round(100 - 100 * W / (fileCount * 5))), W being the sum of the
\* weights low 1, medium 3, high 7, critical 15 over the bucket.
C10_CategoryScore ==
    Reported =>
        \A c \in {"codeQuality", "security", "performance"} :
            LET bucket == Bucket(input.analyses,
                                 CASE c = "codeQuality" -> {"quality", "bug"}
                                   [] c = "security" -> {"security"}
                                   [] c = "performance" -> {"performance"})
                score == output.report.categories[c].score
            IN IF Len(bucket) = 0
               THEN score = 85
               ELSE IsClaimedScore(score, bucket, Len(input.analyses))

\* three files: an empty bucket scores 85, one low issue rounds 93.33 to 93
\* and a low plus a medium one (weight 4) round 73.33 to 73
C10_Witness ==
    /\ Reported
    /\ Len(input.analyses) = 3
    /\ output.report.categories.performance.score = 85
    /\ output.report.categories.security.score = 93
    /\ output.report.categories.codeQuality.score = 73

\* C11: within a job at most 5 reviewer calls are pending at any moment and
\* at most 3 analyzeIssue calls: the calls pending during file review are
\* calls for files of the chunk at i, the verdicts of every earlier chunk are
\* already collected, no call is pending outside file review, and while the
\* job waits between two issue chunks every analysis of the chunks so far is
\* collected.
C11_BoundedFanOut ==
    \A id \in DOMAIN proc :
        LET p == proc[id]
        IN /\ Cardinality(p.pending) <= 5
           /\ p.pending # {} => p.pc = "review"
           /\ p.pc = "review" =>
                 /\ p.pending \subseteq (p.i + 1)..(p.i + 5)
                 /\ Len(p.analyses) = p.i
           /\ p.sched.issueCalls <= 3
           /\ p.pc = "issueDelay" => Len(p.issueAnalyses) = p.ii + 3

\* a job whose files were reviewed in two chunks waits after an issue chunk
\* of three calls
C11_Witness ==
    \E id \in DOMAIN proc :
        /\ proc[id].pc = "issueDelay"
        /\ proc[id].sched.issueCalls = 3
        /\ proc[id].sched.chunks = 2

CeilDiv(n, b) == (n + b - 1) \div b

\* C12: over n items with batch size B a batch loop dispatches ceil(n / B)
\* chunks, each the next B items of the input, and begins a delay after every
\* chunk but the last: while a chunk of files is reviewed the delays are one
\* fewer than the chunks, in a delay they are as many and a chunk remains,
\* and once the loop has ended the chunks are ceil(n / B) and the delays one
\* fewer, none for n = 0; 7 files give 2 chunks and 1 delay. The same holds
\* for the issues with B = 3.
C12_ChunksAndDelays ==
    \A id \in DOMAIN proc :
        LET p == proc[id]
            h == p.sched
            n == Len(p.codeFiles)
        IN /\ p.pc = "review" =>
                 /\ h.chunks = p.i \div 5 + 1 /\ p.i % 5 = 0
                 /\ h.delays = h.chunks - 1
                 /\ p.pending \cup DOMAIN p.settled =
                       (p.i + 1)..(IF p.i + 5 < n THEN p.i + 5 ELSE n)
           /\ p.pc = "batchDelay" =>
                 /\ h.chunks = p.i \div 5 + 1
                 /\ h.delays = h.chunks
                 /\ h.chunks < CeilDiv(n, 5)
           /\ p.pc \in {"fetch", "issueDelay", "pathExists", "remove", "retryWait"} =>
                 /\ h.chunks = CeilDiv(h.fileCount, 5)
                 /\ h.delays = IF h.fileCount = 0 THEN 0 ELSE h.chunks - 1
                 /\ h.fileCount = 7 => h.chunks = 2 /\ h.delays = 1
           /\ p.pc \in {"fetch", "issueDelay"} => h.fileCount = n
           /\ p.pc = "issueDelay" =>
                 /\ h.issueCount = Len(p.issues)
                 /\ h.issueChunks = p.ii \div 3 + 1 /\ p.ii % 3 = 0
                 /\ h.issueDelays = h.issueChunks
                 /\ h.issueChunks < CeilDiv(h.issueCount, 3)
                 /\ Len(p.issueAnalyses) = IF p.ii + 3 < Len(p.issues)
                                           THEN p.ii + 3 ELSE Len(p.issues)
           /\ p.pc \in {"pathExists", "remove", "retryWait"} =>
                 /\ h.issueChunks = CeilDiv(h.issueCount, 3)
                 /\ h.issueDelays = IF h.issueCount = 0 THEN 0 ELSE h.issueChunks - 1

\* a job of 7 files and 4 issues has ended both loops: 2 chunks and 1 delay each
C12_Witness ==
    \E id \in DOMAIN proc :
        /\ proc[id].pc = "pathExists"
        /\ analysisStore[id].status = "completed"
        /\ proc[id].sched.fileCount = 7
        /\ proc[id].sched.chunks = 2 /\ proc[id].sched.delays = 1
        /\ proc[id].sched.issueCount = 4
        /\ proc[id].sched.issueChunks = 2 /\ proc[id].sched.issueDelays = 1

\* the URL names a repository of the host github.com
IsGitHubUrl(url) ==
    /\ url.type = "string"
    /\ Len(trim(url.tokens)) >= 2
    /\ trim(url.tokens)[2] = "github.com"

\* the request fails validation as the claim lists it: the URL is missing, the
\* URL is invalid, or issue analysis is requested (the field defaults to true)
\* for a URL that is not a GitHub URL
FailsValidation(req, route) ==
    \/ IsMissing(req)
    \/ ~validateRepoUrl(req.repositoryUrl)
    \/ /\ route = "issues"
       /\ includeGitHubIssuesOf(req)
       /\ ~IsGitHubUrl(req.repositoryUrl)

\* C13: a POST that fails validation (URL missing, URL invalid, or issue
\* analysis requested for a URL that is not a GitHub URL) is answered 400 and
\* leaves the job store, the running set and the pipelines as they were.
C13_RejectedBeforeAnyJob ==
    [][(output' # output /\ FailsValidation(output'.request, output'.route)) =>
          /\ output'.status = 400
          /\ UNCHANGED <<analysisStore, runningProcesses, proc>>]_vars

\* the issue track of job id has ended with a summary
IssueTrackSucceeded(id) == proc[id].githubIssuesAnalysis.kind = "summary"

\* C14: when a job is completed with issue analysis enabled and its issue track
\* succeeded, the stored report carries the issue summary and GET /:id/issues
\* answers with it; the handler answers 404 only when the job is unknown or no
\* summary was produced.
C14_IssueSummaryServed ==
    \A id \in DOMAIN analysisStore :
        /\ (/\ analysisStore[id].status = "completed"
            /\ proc[id].includeGitHubIssues
            /\ IssueTrackSucceeded(id))
               => /\ "githubIssues" \in DOMAIN analysisStore[id].results
                  /\ getIssues(analysisStore, id).status = 200
                  /\ getIssues(analysisStore, id).githubIssues
                         = proc[id].githubIssuesAnalysis
        /\ getIssues(analysisStore, id).status = 404 => ~IssueTrackSucceeded(id)

CriticalAlert == "critical issues require immediate attention"

\* C15: in the issue summary, prioritySummary.critical is the number of issues
\* classified critical, the four priority counts add up to the number of
\* analyses, and the insights hold the critical alert exactly when that number
\* is above zero.
C15_PrioritySummary ==
    output.done =>
        LET summary == output.githubIssuesAnalysis
            counts == summary.prioritySummary
            critical == Cardinality({k \in 1..Len(input.issues) :
                                        prioritizeIssue(input.issues[k]) = "critical"})
        IN /\ counts.critical = critical
           /\ counts.critical + counts.high + counts.medium + counts.low
                  = Len(summary.analyses)
           /\ Len(summary.analyses) = Len(input.issues)
           /\ (\E k \in 1..Len(summary.insights) :
                   summary.insights[k].text = CriticalAlert) <=> critical > 0
           /\ \A k \in 1..Len(summary.insights) :
                  summary.insights[k].text = CriticalAlert
                      => summary.insights[k].count = critical

\* five issues, two of them critical by a label: the summary counts 2 and the
\* alert is raised
C15_Witness ==
    /\ output.done
    /\ Len(input.issues) = 5
    /\ Cardinality({k \in 1..5 :
                        SomeLabel(input.issues[k].labels,
                                  {"critical", "urgent", "security"})}) = 2
    /\ output.githubIssuesAnalysis.prioritySummary.critical = 2
    /\ output.githubIssuesAnalysis.prioritySummary.medium > 0
    /\ \E k \in 1..Len(output.githubIssuesAnalysis.insights) :
           output.githubIssuesAnalysis.insights[k]
               = Insight(CriticalAlert, 2)

\* the issue matches a keyword of the rule in a label or in its title
Matches(issue, labelKeywords, titleKeywords) ==
    \/ \E k \in 1..Len(issue.labels) : issue.labels[k] \cap labelKeywords # {}
    \/ issue.title \cap titleKeywords # {}

MatchesCritical(issue) ==
    Matches(issue, {"critical", "urgent", "security"},
            {"critical", "urgent", "security", "crash", "data loss"})

MatchesHigh(issue) ==
    Matches(issue, {"high", "important", "priority"},
            {"blocker", "regression", "production"})

MatchesLow(issue) ==
    \/ Matches(issue, {"low", "minor", "nice-to-have"}, {"minor", "cosmetic"})
    \/ issue.state = "closed"

\* C16: the priority of an issue is that of the first rule it matches in the
\* order critical, high, low, and medium when it matches none.
C16_FirstMatchWins ==
    output.done =>
        LET issue == input.issue
            priority == output.result.priority
        IN /\ MatchesCritical(issue) => priority = "critical"
           /\ ~MatchesCritical(issue) /\ MatchesHigh(issue) => priority = "high"
           /\ ~MatchesCritical(issue) /\ ~MatchesHigh(issue) /\ MatchesLow(issue)
                  => priority = "low"
           /\ ~MatchesCritical(issue) /\ ~MatchesHigh(issue) /\ ~MatchesLow(issue)
                  => priority = "medium"

\* an issue whose title holds "security" and whose label is "low" is critical
C16_Witness ==
    /\ output.done
    /\ "security" \in input.issue.title
    /\ input.issue.labels = << {"low"} >>
    /\ output.result.priority = "critical"

\* a term extracted from the issue occurs in the path or the content of file
TermOccurs(issue, file) ==
    \E k \in 1..Len(extractSearchTerms(issue)) :
        LET term == extractSearchTerms(issue)[k]
        IN \/ term \in file.pathTerms
           \/ term \in DOMAIN file.content /\ file.content[term] > 0

\* the code files handed to analyzeIssue whose path is among its relatedFiles
RelatedAmong(codeFiles, relatedFiles) ==
    {k \in 1..Len(codeFiles) :
        \E m \in 1..Len(relatedFiles) : relatedFiles[m] = codeFiles[k].relativePath}

\* C17 as stated: a file in which no extracted term of the issue occurs, in
\* its path or its content, is never among relatedFiles, and relatedFiles holds
\* at most 10 paths.
C17_NoTermNoFile ==
    output.done =>
        /\ Len(output.result.relatedFiles) <= 10
        /\ \A k \in RelatedAmong(input.codeFiles, output.result.relatedFiles) :
               TermOccurs(input.issue, input.codeFiles[k])

\* C17, amended: a file is among relatedFiles only if an extracted term of the
\* issue occurs in its path or its content, or its extension occurs in the
\* body of the issue; relatedFiles holds at most 10 paths.
C17_NoScoreNoFile ==
    output.done =>
        /\ Len(output.result.relatedFiles) <= 10
        /\ \A k \in RelatedAmong(input.codeFiles, output.result.relatedFiles) :
               \/ TermOccurs(input.issue, input.codeFiles[k])
               \/ input.codeFiles[k].extension \in input.issue.bodyExtensions

\* eleven of twelve files hold a term of the issue: ten of them are related,
\* the file that holds none is not
C17_Witness ==
    /\ output.done
    /\ Len(input.codeFiles) = 12
    /\ Cardinality({k \in 1..12 : TermOccurs(input.issue, input.codeFiles[k])}) = 11
    /\ Len(output.result.relatedFiles) = 10
    /\ \E k \in 1..12 :
           /\ ~TermOccurs(input.issue, input.codeFiles[k])
           /\ k \notin RelatedAmong(input.codeFiles, output.result.relatedFiles)

CleanupPcs == {"pathExists", "remove", "retryWait"}

\* a removal is attempted at most 3 times in one cleanup, and a pipeline that
\* ends has called cleanup (every pipeline past its clone has a checkout
\* directory)
C18_CleanupCalled ==
    \A id \in DOMAIN proc :
        /\ proc[id].attempts <= 3
        /\ proc[id].pc = "remove" => proc[id].attempts < 3
        /\ proc[id].pc = "done" => proc[id].cleanups >= 1

\* a step of a cleanup leaves the record of its job as it is, but for the
\* cleanup inside cloneRepository, after which the job fails with the error
\* of the clone
C18_CleanupStep ==
    \A id \in DOMAIN proc :
        (proc[id].pc \in CleanupPcs /\ proc'[id] # proc[id]) =>
            \/ analysisStore'[id] = analysisStore[id]
            \/ /\ proc[id].after # "finally"
               /\ analysisStore'[id].status = "failed"
               /\ analysisStore'[id].error = proc[id].error
               /\ analysisStore[id].status = "processing"

\* the n-th cleanup of the job returns: the pipeline ends or goes on
C18_CleanupReturns ==
    \A n \in 1..3 :
        (At(1, "pathExists") /\ proc[1].cleanups = n)
            ~> (At(1, "done") \/ (1 \in DOMAIN proc /\ proc[1].cleanups > n)
                \/ (1 \in DOMAIN proc /\ proc[1].pc \notin CleanupPcs))

\* C18: on every path on which the checkout directory was created, cleanup is
\* called before the pipeline ends; a cleanup attempts the removal at most 3
\* times and always returns; a removal that keeps failing is not propagated
\* and does not change the status of the job.
C18_CleanupAlwaysRuns ==
    /\ []C18_CleanupCalled
    /\ [][C18_CleanupStep]_vars
    /\ C18_CleanupReturns

\* a completed job whose checkout could not be removed in 3 attempts has
\* ended, still completed
C18_Witness ==
    /\ At(1, "done")
    /\ proc[1].attempts = 3 /\ proc[1].dir = "present" /\ proc[1].cleanups = 1
    /\ analysisStore[1].status = "completed"
    /\ "error" \notin DOMAIN analysisStore[1]

\* C19: truncateContent returns a content of at most 200 lines as it is; of a
\* longer content it returns the first 150 lines, then the elision marker,
\* then the last 50 lines, each group in the order of the content.
C19_Truncation ==
    output.done =>
        LET lines == input.content
            n == Len(lines)
            result == output.result
        IN IF n <= 200
           THEN result = lines
           ELSE /\ Len(result) = 150 + Len(MarkerLines) + 50
                /\ \A k \in 1..150 : result[k] = lines[k]
                /\ \A k \in 1..Len(MarkerLines) : result[150 + k] = MarkerLines[k]
                /\ \A k \in 1..50 :
                       result[150 + Len(MarkerLines) + k] = lines[n - 50 + k]

\* a content of 201 numbered lines: lines 1 to 150, the marker, lines 152 to 201
C19_Witness ==
    /\ output.done
    /\ Len(input.content) = 201 /\ input.content[201] = "201"
    /\ output.result[150] = "150"
    /\ output.result[152] = MarkerLines[2]
    /\ output.result[154] = "152"
    /\ output.result[Len(output.result)] = "201"

\* the suggestions of the issues of the given severity among the verdicts
SuggestionsOf(analyses, severity) ==
    LET issues == allIssues(analyses)
    IN {issues[k].suggestion : k \in {m \in 1..Len(issues) : issues[m].severity = severity}}

\* C20: the immediate recommendations are at most 5, no two of them equal and
\* none empty: at most 3 suggestions of critical issues, then at most 2 of
\* high issues.
C20_ImmediateDistinct ==
    Reported =>
        LET immediate == output.report.immediate
        IN /\ Len(immediate) <= 5
           /\ \A k, m \in 1..Len(immediate) : k # m => immediate[k] # immediate[m]
           /\ \A k \in 1..Len(immediate) : immediate[k] # ""
           /\ \E c \in 0..3 :
                  /\ c <= Len(immediate) /\ Len(immediate) - c <= 2
                  /\ \A k \in 1..c : immediate[k] \in SuggestionsOf(input.analyses, "critical")
                  /\ \A k \in (c + 1)..Len(immediate) :
                         immediate[k] \in SuggestionsOf(input.analyses, "high")

\* C21: the phrase of the summary of a report is the one keyed by the risk
\* level of that report, overview.riskLevel.
C21_PhraseOfRiskLevel ==
    Reported =>
        output.report.summary.phrase = riskDescriptions[output.report.overview.riskLevel]

\* a request with a valid gitlab.com URL and no includeGitHubIssues field
IsGitLabRequestWithoutOption(req) ==
    /\ "repositoryUrl" \in DOMAIN req
    /\ "includeGitHubIssues" \notin DOMAIN req
    /\ req.repositoryUrl.type = "string"
    /\ Len(req.repositoryUrl.tokens) >= 2
    /\ req.repositoryUrl.tokens[2] = "gitlab.com"
    /\ validateRepoUrl(req.repositoryUrl)

\* C22: a POST with a valid gitlab.com URL and the includeGitHubIssues field
\* omitted is not rejected: a job record is created and the response carries
\* an analysisId with status processing.
C22_GitLabAccepted ==
    [][(output' # output /\ IsGitLabRequestWithoutOption(output'.request)) =>
          /\ output'.status = 200
          /\ output'.jobStatus = "processing"
          /\ output'.analysisId \in DOMAIN analysisStore' \ DOMAIN analysisStore
          /\ analysisStore'[output'.analysisId].status = "processing"]_vars

\* C23: every accepted job eventually has status completed or failed, cancelled
\* or not; once it has, it never is processing again.
C23_EventuallyTerminal ==
    /\ (1 \in DOMAIN analysisStore)
           ~> (/\ 1 \in DOMAIN analysisStore
               /\ analysisStore[1].status \in {"completed", "failed"})
    /\ (1 \in DOMAIN proc) ~> At(1, "done")
    /\ [][\A id \in DOMAIN analysisStore :
             analysisStore[id].status # "processing"
                 => analysisStore'[id].status # "processing"]_vars

\* a job cancelled during its issue review (progress 70) has ended failed
C23_Witness ==
    /\ At(1, "done")
    /\ 1 \notin runningProcesses
    /\ FailedAsCancelled(analysisStore[1])
    /\ analysisStore[1].progress = 70

\* C24: a step of the pipeline of one job leaves the record, the running-set
\* membership and the pipeline of every other job as they were.
C24_OtherJobsUntouched ==
    [][\A a \in DOMAIN proc :
          proc'[a] # proc[a] =>
              \A b \in DOMAIN analysisStore \ {a} :
                  /\ analysisStore'[b] = analysisStore[b]
                  /\ (b \in runningProcesses') <=> (b \in runningProcesses)
                  /\ proc'[b] = proc[b]]_vars

\* one job has ended failed and left the running set while the other, past a
\* progress update of its own, is still running its file review
C24_Witness ==
    \E a, b \in DOMAIN analysisStore :
        /\ a # b
        /\ At(a, "done") /\ analysisStore[a].status = "failed"
        /\ a \notin runningProcesses
        /\ At(b, "review") /\ b \in runningProcesses
        /\ analysisStore[b].status = "processing" /\ analysisStore[b].progress = 40

\* C25: once a job is cancelled during its file review or its issue review,
\* the batch in flight finishes and no further batch is dispatched for it.
C25_NoBatchAfterCancel ==
    [][\A id \in DOMAIN proc :
          CancelledInReview(id, runningProcesses, proc) =>
              /\ proc'[id].sched.chunks <= proc[id].sched.chunks
              /\ proc'[id].sched.issueChunks <= proc[id].sched.issueChunks]_vars

\* C26: a failure of the issue track does not fail the job: unless the job was
\* cancelled, it ends completed with a report over the verdicts of its files.
C26_IssueTrackFailureTolerated ==
    \A id \in DOMAIN proc :
        proc[id].githubIssuesAnalysis.kind = "failed" =>
            LET rec == analysisStore[id]
            IN IF rec.status = "failed"
               THEN FailedAsCancelled(rec) /\ id \notin runningProcesses
               ELSE /\ rec.status = "completed"
                    /\ rec.progress = 100
                    /\ Len(rec.results.fileAnalysis) = proc[id].sched.fileCount
                    /\ rec.results.overview.totalFiles = proc[id].sched.fileCount

\* the tracker answered with its rate limit; the job has completed with the
\* verdicts of its 7 files
C26_Witness ==
    /\ At(1, "pathExists")
    /\ proc[1].githubIssuesAnalysis = failedIssuesAnalysis(fetchErrors.rateLimited)
    /\ analysisStore[1].status = "completed"
    /\ Len(analysisStore[1].results.fileAnalysis) = 7

\* C27: with the number of files fixed, a bucket with one issue more never
\* scores higher, and a bucket that holds an issue never scores above the 85
\* of the empty bucket.
C27_IssuesOnlyLower ==
    Reported =>
        \A c \in {"codeQuality", "security", "performance"} :
            LET bucket == Bucket(input.analyses,
                                 CASE c = "codeQuality" -> {"quality", "bug"}
                                   [] c = "security" -> {"security"}
                                   [] c = "performance" -> {"performance"})
                score == output.report.categories[c].score
            IN Len(bucket) > 0 =>
                  /\ score <= 85
                  /\ score <= calculateScore(SubSeq(bucket, 1, Len(bucket) - 1),
                                             Len(input.analyses))

\* C28: a job whose file discovery gave no file and that was not cancelled
\* ends completed, and the four category scores and the overall score of its
\* report are numbers in 0..100.
C28_NoFilesDefinedScores ==
    \A id \in DOMAIN analysisStore :
        LET rec == analysisStore[id]
        IN /\ (At(id, "done") /\ rec.status = "failed") =>
                  \/ rec.error = CancelledMessage
                  \/ rec.progress < 40
           /\ (rec.status = "completed" /\ rec.results.overview.totalFiles = 0) =>
                  /\ \A c \in {"codeQuality", "security", "performance",
                                 "maintainability"} :
                         rec.results.categories[c].score \in 0..100
                  /\ rec.results.overview.overallScore \in 0..100

\* C29: the result of truncateContent never has more lines than its argument.
C29_NeverLonger ==
    output.done => Len(output.result) <= Len(input.content)

\* a segment of the path is an ignored name
HasIgnoredSegment(file) ==
    \E k \in 1..Len(file.path) :
        Len(file.path[k]) = 1 /\ file.path[k][1] \in ignorePaths

\* C30: a supported, readable file within the size and path limits, none of
\* whose segments is an ignored name and which is not a .log file, is among
\* the files getCodeFiles returns (the checkout holds fewer than 200 files).
C30_OnlyIgnoredSegmentsDropped ==
    output.done =>
        \A k \in input.tree :
            LET file == TreeFiles[k]
            IN (/\ file.extension \in supportedExtensions
                /\ file.extension # ".log"
                /\ file.size <= maxFileSize
                /\ file.pathLength <= maxPathLength
                /\ Len(file.path) <= maxDepth
                /\ file.readable
                /\ ~HasIgnoredSegment(file))
               => \E m \in 1..Len(output.result) : output.result[m] = file.relativePath

====
